---- MODULE Spec2Model ----
(***************************************************************************)
(* CloudEdging Shield: the request pipeline of the edge worker.            *)
(*                                                                         *)
(* One request is one Fetch step (core.js fetch): config load, security    *)
(* gate, mode handler, fortification.  Work handed to ctx.waitUntil is a    *)
(* bag of pending tasks, each run later by its own step, in any order.     *)
(* What an external call returns (origin, stores, upstream) is an input of  *)
(* the step that makes the call.  Strings are strings: paths, queries and   *)
(* header values are inspected the way the code inspects them.             *)
(***************************************************************************)
EXTENDS Bags, FiniteSets, Integers, Sequences, TLC

VARIABLES
    now,              \* Date.now(), in ms since the worker was deployed
    env,              \* the bindings of the deployed worker
    cfgStore,         \* CLOUDEDGING_CONFIG: {} or {the stored config}
    cachedConfig,     \* CACHED_CONFIG: {} (null) or {config}
    lastConfigFetch,  \* LAST_CONFIG_FETCH
    loads,            \* the calls of loadConfig that are waiting for the store
    edge,             \* caches.default: url -> entry
    rl,               \* CLOUDEDGING_CACHE, the RL_ keys: key -> [n, exp]
    bucket,           \* STORAGE_BUCKET: key -> object
    kv,               \* CLOUDEDGING_CACHE, the prompt- keys: id -> [text, exp]
    vecs,             \* SEMANTIC_DB: id -> [values, model]
    tasks,            \* the promises handed to ctx.waitUntil, not yet settled
    resp,             \* what the last request was answered with, and what it did
    hist              \* history of the run, read only by the properties

vars == <<now, env, cfgStore, cachedConfig, lastConfigFetch, loads, edge, rl,
          bucket, kv, vecs, tasks, resp, hist>>

----------------------------------------------------------------------------
(* Bounds of the model *)

MaxTicks == 3
MaxTasks == 2
MaxLoads == 2
MaxWrites == 2

(* Program constants *)

CONFIG_TTL_MS == 60000
FRESH_MS == 3600000
DEFAULT_CACHE_TTL == 3600
R2_EDGE_TTL == 604800
RL_WINDOW_S == 60
DEFAULT_RL_THRESHOLD == 100
MAX_MIRROR_BYTES == 104857600
DEFAULT_SEM_THRESHOLD == 92
MIN_PROMPT_LEN == 10
MAX_PROMPT_LEN == 2000
DEFAULT_AI_TTL == 3600

----------------------------------------------------------------------------
(* Strings *)

\* String.prototype.includes
Includes(s, pat) ==
    \E i \in 1..(Len(s) - Len(pat) + 1) : SubSeq(s, i, i + Len(pat) - 1) = pat

\* String.prototype.startsWith
StartsWith(s, pat) == Len(s) >= Len(pat) /\ SubSeq(s, 1, Len(pat)) = pat

\* String.prototype.endsWith; a regex /(a|b|c)$/ is EndsWith of one alternative
EndsWith(s, pat) ==
    Len(s) >= Len(pat) /\ SubSeq(s, Len(s) - Len(pat) + 1, Len(s)) = pat

\* regex.test(s) for a regex that is an unanchored alternation of literals
TestAny(s, alts) == \E a \in alts : Includes(s, a)

\* String.prototype.toLowerCase, letter by letter
UpperLetters == "ABCDEFGHIJKLMNOPQRSTUVWXYZ"
LowerLetters == "abcdefghijklmnopqrstuvwxyz"

LowerTable ==
    [c \in {SubSeq(UpperLetters, i, i) : i \in 1..26} |->
        LET i == CHOOSE j \in 1..26 : SubSeq(UpperLetters, j, j) = c
        IN SubSeq(LowerLetters, i, i)]

LowerChar(c) == IF c \in DOMAIN LowerTable THEN LowerTable[c] ELSE c

RECURSIVE ToLower(_)
ToLower(s) ==
    IF s = "" THEN "" ELSE LowerChar(SubSeq(s, 1, 1)) \o ToLower(SubSeq(s, 2, Len(s)))

\* String.prototype.trim, for spaces
RECURSIVE Trim(_)
Trim(s) ==
    IF s = "" THEN ""
    ELSE IF SubSeq(s, 1, 1) = " " THEN Trim(SubSeq(s, 2, Len(s)))
    ELSE IF SubSeq(s, Len(s), Len(s)) = " " THEN Trim(SubSeq(s, 1, Len(s) - 1))
    ELSE s

\* regex.test(s) for a case-insensitive alternation of literals (/.../i)
TestAnyI(s, alts) ==
    \E ls \in {ToLower(s)} : \E a \in alts : Includes(ls, ToLower(a))

\* The empty set is null/undefined, a singleton is the value
Some(x) == {x}
TheOne(S) == CHOOSE x \in S : TRUE

----------------------------------------------------------------------------
(* Requests, responses, configuration *)

\* A request body, as JSON.parse sees it: fmt names the shape, msgs the
\* messages or contents array (role, content), text the prompt / input field or
\* raw text, model the requested model ("" when the body names none).
Body0 == [fmt |-> "none", msgs |-> <<>>, text |-> "", model |-> ""]

\* A header that is absent is "" (get() returns null; the code reads it with
\* || "" or compares it to a non-empty literal), except where noted.
Req0 ==
    [method |-> "GET", path |-> "/", search |-> "", cookie |-> "", auth |-> "",
     cc |-> "", pragma |-> "", upgrade |-> "", cmd |-> "", token |-> "",
     ip |-> "1.1.1.1", country |-> "US", xprov |-> "", ctype |-> "",
     clen |-> 0, body |-> Body0, host |-> "www.shop.example"]

\* url.toString() for the one host the worker serves
UrlOf(r) == r.path \o r.search

\* A Response: status, X-Shield-Status (tag), X-Shield-Storage (stor), body,
\* Content-Type, Content-Length (0: no header), Cache-Control, Retry-After,
\* X-Shield-AI-Cache (aic), X-Shield-AI-Cache-Score in hundredths (score),
\* X-Shield-AI-Provider (prov), X-Shield-Version (ver), X-Shield-Client-ID
\* (cid), the names of the other headers it carries (hdrs), and whether
\* fortifyResponse has been applied (fort).
Res0 ==
    [status |-> 200, tag |-> "", stor |-> "", body |-> "", ctype |-> "",
     clen |-> 0, cc |-> "", retry |-> "", aic |-> "", score |-> 0,
     prov |-> "", ver |-> "", cid |-> "", hdrs |-> {}, fort |-> FALSE]

\* A deferred task: what ctx.waitUntil was handed
Task0 ==
    [kind |-> "", key |-> "", body |-> "", ttl |-> 0, cur |-> 0,
     ctype |-> "", clen |-> 0, cc |-> "", rbody |-> Body0, hdrs |-> {}]

\* What a handler did: its response, the tasks it handed to ctx.waitUntil in
\* order, the external calls it made, the edge-cache urls it deleted, the
\* bodies it sent to the upstream gateway in order, and whether it threw
\* instead of returning.
Out(res, sched, fx) ==
    [res |-> res, sched |-> sched, fx |-> fx, del |-> {}, fwd |-> <<>>,
     threw |-> FALSE]

Threw(sched, fx) ==
    [res |-> Res0, sched |-> sched, fx |-> fx, del |-> {}, fwd |-> <<>>,
     threw |-> TRUE]

\* A config field that is absent is 0, "" , {} or FALSE, which is what the
\* code's `|| default` and truthiness tests make of undefined.
Config0 ==
    [mode |-> "", cache_ttl |-> 0, rate_limit_enabled |-> FALSE,
     rate_limit_threshold |-> 0, blocked_countries |-> {}, purge_secret |-> "",
     ai_gateway_id |-> "", ai_cache_ttl |-> 0, semantic_cache_enabled |-> TRUE,
     semantic_cache_threshold |-> 0, cloudflare_plan |-> "",
     ai_max_request_size |-> 0]

Env0 ==
    [CLIENT_ID |-> "acme", CLOUDEDGING_CONFIG |-> TRUE, CLOUDEDGING_CACHE |-> TRUE,
     STORAGE_BUCKET |-> TRUE, SEMANTIC_DB |-> TRUE, AI |-> TRUE,
     ACCOUNT_ID |-> "acct", PURGE_SECRET |-> ""]

\* What the external calls of one step return: the origin's response (or a
\* network failure), the upstream gateway's response, the calls that throw,
\* and which of the equally scored nearest neighbours the index returns.
\* The origin and the upstream name their software in their headers.
Ext0 ==
    [origin |-> [Res0 EXCEPT !.body = "v1", !.ctype = "text/html", !.clen = 500,
                             !.hdrs = {"server", "x-powered-by", "via", "etag"}],
     originThrows |-> FALSE,
     upstream |-> [Res0 EXCEPT !.body = "r1", !.ctype = "application/json",
                               !.hdrs = {"server", "via"}],
     fail |-> {}, pick |-> 1]

----------------------------------------------------------------------------
(* utils.js *)

\* fetchFromOrigin: the origin's response, or 502 when fetch rejects
fetchFromOrigin(o) ==
    IF o.originThrows
    THEN [Res0 EXCEPT !.status = 502, !.body = "Origin Error"]
    ELSE o.origin

\* addShieldHeader
addShieldHeader(res, status) == [res EXCEPT !.tag = status]

\* A store that keeps the X-Shield-Age of the entry it replaces
MutSaveKeepsAge(cache, key, response, ttl) ==
    [u \in DOMAIN cache \cup {key} |->
        IF u = key
        THEN [body |-> response.body, hdrs |-> response.hdrs,
              age |-> IF key \in DOMAIN cache THEN cache[key].age ELSE now, ttl |-> ttl]
        ELSE cache[u]]

\* saveToCache, as run inside a deferred task at time `now`: the response's
\* body and headers, with X-Shield-Age and the rewritten Cache-Control
saveToCache(cache, key, response, ttl) ==
    [u \in DOMAIN cache \cup {key} |->
        IF u = key
        THEN [body |-> response.body, hdrs |-> response.hdrs, age |-> now, ttl |-> ttl]
        ELSE cache[u]]

\* The response cache.match returns for an entry
FromCache(entry) ==
    [Res0 EXCEPT !.body = entry.body, !.hdrs = entry.hdrs, !.tag = "MISS"]

SHIELD_VERSION == "2.7.0"

securityHeaders ==
    {"strict-transport-security", "x-content-type-options", "x-frame-options",
     "referrer-policy"}

toDelete ==
    {"server", "x-powered-by", "x-aspnet-version", "x-runtime", "x-vignette",
     "via", "x-origin-server"}

corsHeaders ==
    {"access-control-allow-origin", "access-control-allow-methods",
     "access-control-allow-headers"}

\* A fortification that leaves the response as the handler returned it
MutFortifyNothing(res, cfg, r) == res

\* fortifyResponse
fortifyResponse(res, cfg, r) ==
    LET isApi == cfg.mode = "API" \/ Includes(r.host, "api.")
        set == res.hdrs \cup securityHeaders
                   \cup (IF isApi THEN {} ELSE {"content-security-policy"})
    IN [res EXCEPT !.fort = TRUE,
                   !.ver = SHIELD_VERSION,
                   !.cid = IF env.CLIENT_ID = "" THEN "unknown" ELSE env.CLIENT_ID,
                   !.hdrs = (set \ toDelete) \cup (IF isApi THEN corsHeaders ELSE {})]

\* CACHED_CONFIG && (now - LAST_CONFIG_FETCH < CONFIG_TTL_MS)
cacheIsFresh == cachedConfig # {} /\ now - lastConfigFetch < CONFIG_TTL_MS

\* The hard-coded default
defaultConfig ==
    [Config0 EXCEPT !.mode = "STANDARD", !.cache_ttl = DEFAULT_CACHE_TTL]

\* A merge that keeps only what the store holds
MutMergeStoredOnly(stored) == IF stored = {} THEN Config0 ELSE TheOne(stored)

\* { ...config, ...stored }: the stored fields over the default; stored is {}
\* when the key is absent or the read threw
mergeConfig(stored) ==
    IF stored = {} THEN defaultConfig
    ELSE LET s == TheOne(stored) IN
         [s EXCEPT !.mode = IF s.mode = "" THEN defaultConfig.mode ELSE s.mode,
                   !.cache_ttl = IF s.cache_ttl = 0 THEN defaultConfig.cache_ttl
                                 ELSE s.cache_ttl]

\* loadConfig run without interruption: the config a request runs with, and
\* the globals afterwards
loadConfig(o) ==
    IF cacheIsFresh
    THEN [config |-> TheOne(cachedConfig), cached |-> cachedConfig,
          last |-> lastConfigFetch, read |-> FALSE]
    ELSE LET stored == IF env.CLOUDEDGING_CONFIG /\ "config" \notin o.fail
                       THEN cfgStore ELSE {}
             config == mergeConfig(stored)
         IN [config |-> config, cached |-> Some(config), last |-> now,
             read |-> env.CLOUDEDGING_CONFIG]

\* A call of loadConfig between its store read and its return
Load0 ==
    [pc |-> "idle", start |-> 0, got |-> {}, readAt |-> 0, doneAt |-> 0,
     ver |-> 0, failed |-> FALSE]

\* A timestamp taken when the load completes
MutStampAtCompletion(load) == now

\* LAST_CONFIG_FETCH = now: `now` was taken when the load started
stampOf(load) == load.start

----------------------------------------------------------------------------
(* web_handler.js *)

isWrite(r) == r.method \in {"POST", "PUT", "DELETE", "PATCH"}

isApiMode(cfg) == cfg.mode \in {"API", "REALTIME"}

\* An authentication check that recognises nobody
MutNobodyAuthenticated(r) == FALSE

isAuthenticated(r) ==
    \/ TestAnyI(r.cookie, {"session", "cart", "logged_in", "auth_token", "user_id", "SESS"})
    \/ TestAnyI(r.auth, {"Bearer", "Basic", "Token", "OAuth"})

\* A mode list in which no mode is aggressive
MutNoModeAggressive(cfg) == FALSE

isAggressive(cfg) == cfg.mode \in {"ECOMMERCE", "STANDARD", "IOT"}

\* Step 2 and the hard disqualifiers: the value of shouldCache at the cache
\* match.  The initial `!isWrite` is overwritten on both branches.
shouldCache(r, cfg) ==
    LET initial == ~isWrite(r)
        bypassHeaders == Includes(r.cc, "no-cache") \/ r.pragma = "no-cache"
        decided == IF isAggressive(cfg)
                   THEN (IF isAuthenticated(r) THEN FALSE ELSE TRUE)
                   ELSE ~isAuthenticated(r) /\ ~bypassHeaders
    IN IF isApiMode(cfg) \/ Includes(r.path, "/api/") \/ Includes(r.path, "/checkout/")
       THEN FALSE
       ELSE decided

cacheTtl(cfg) == IF cfg.cache_ttl = 0 THEN DEFAULT_CACHE_TTL ELSE cfg.cache_ttl

\* A freshness test that takes the window for seconds, not milliseconds
MutIsFreshSeconds(entry) == now - entry.age < FRESH_MS \div 1000

\* Date.now() - age < 3600000
isFresh(entry) == now - entry.age < FRESH_MS

\* A stale hit that schedules its refresh twice
MutRefreshTaskTwice(url, ttl) ==
    << [Task0 EXCEPT !.kind = "refresh", !.key = url, !.ttl = ttl],
       [Task0 EXCEPT !.kind = "refresh", !.key = url, !.ttl = ttl] >>

\* The task of step 3: ctx.waitUntil(refreshCache(...))
refreshTasks(url, ttl) ==
    << [Task0 EXCEPT !.kind = "refresh", !.key = url, !.ttl = ttl] >>

saveTask(url, res, ttl) ==
    [Task0 EXCEPT !.kind = "save", !.key = url, !.body = res.body,
                  !.hdrs = res.hdrs, !.ttl = ttl]

handleWebTraffic(r, cfg, o) ==
    LET url == UrlOf(r)
        sc == shouldCache(r, cfg)
    IN IF sc /\ "cacheMatch" \in o.fail THEN Threw(<<>>, {"match"})
       ELSE IF sc /\ url \in DOMAIN edge
       THEN IF isFresh(edge[url])
            THEN Out(addShieldHeader(FromCache(edge[url]), "HIT"), <<>>, {"match"})
            ELSE Out(addShieldHeader(FromCache(edge[url]), "SWR"),
                     refreshTasks(url, cacheTtl(cfg)), {"match"})
       ELSE LET response == fetchFromOrigin(o)
                originForbids == Includes(response.cc, "no-store")
                sc2 == IF sc /\ originForbids /\ ~isAggressive(cfg) THEN FALSE ELSE sc
                finalResponse == addShieldHeader(response, IF sc2 THEN "MISS" ELSE "BYPASS")
            IN Out(finalResponse,
                   IF sc2 /\ response.status = 200
                   THEN <<saveTask(url, finalResponse, cacheTtl(cfg))>> ELSE <<>>,
                   (IF sc THEN {"match"} ELSE {}) \cup {"origin"})

----------------------------------------------------------------------------
(* core.js: the storage mirror *)

staticExtensions ==
    {"jpg", "jpeg", "png", "gif", "webp", "svg", "ico", "css", "js", "woff",
     "woff2", "ttf", "eot", "otf", "mp4", "webm", "mp3", "pdf", "txt", "json",
     "zip", "bin"}

\* An extension guard that lets nothing through to the bucket
MutNoStaticPaths(path) == FALSE

\* /\.(jpg|...|bin)$/i.test(path)
isStaticPath(path) ==
    \E lp \in {ToLower(path)} : \E e \in staticExtensions : EndsWith(lp, "." \o e)

\* path.startsWith("/") ? path.slice(1) : path
r2KeyOf(path) == IF StartsWith(path, "/") THEN SubSeq(path, 2, Len(path)) ELSE path

\* r2Key.includes("..") || r2Key.includes("//")
invalidKey(r2Key) == Includes(r2Key, "..") \/ Includes(r2Key, "//")

\* getContentType: the table, by the text after the last dot
getContentType(filename) ==
    LET f == ToLower(filename)
        table == [jpg |-> "image/jpeg", jpeg |-> "image/jpeg", png |-> "image/png",
                  gif |-> "image/gif", webp |-> "image/webp", svg |-> "image/svg+xml",
                  ico |-> "image/x-icon", css |-> "text/css",
                  js |-> "application/javascript", json |-> "application/json",
                  woff |-> "font/woff", woff2 |-> "font/woff2", ttf |-> "font/ttf",
                  eot |-> "application/vnd.ms-fontobject", otf |-> "font/otf",
                  mp4 |-> "video/mp4", webm |-> "video/webm", mp3 |-> "audio/mpeg",
                  pdf |-> "application/pdf", txt |-> "text/plain",
                  zip |-> "application/zip", bin |-> "application/octet-stream"]
    IN IF \E e \in DOMAIN table : EndsWith(f, "." \o e)
       THEN table[CHOOSE e \in DOMAIN table : EndsWith(f, "." \o e)]
       ELSE "application/octet-stream"

mirrorableTypes ==
    {"image/", "video/", "audio/", "javascript", "css", "font", "woff",
     "application/pdf", "application/zip", "application/octet-stream"}

\* A mirroring rule without the size limits
MutShouldMirrorAnySize(t) ==
    /\ TestAny(t.ctype, mirrorableTypes)
    /\ ~Includes(t.cc, "no-store")
    /\ ~Includes(t.cc, "private")

\* shouldMirror, from the headers of the origin response the task holds
shouldMirror(t) ==
    /\ t.clen > 0
    /\ t.clen < MAX_MIRROR_BYTES
    /\ TestAny(t.ctype, mirrorableTypes)
    /\ ~Includes(t.cc, "no-store")
    /\ ~Includes(t.cc, "private")

mirrorTask(r2Key, originRes) ==
    [Task0 EXCEPT !.kind = "mirror", !.key = r2Key, !.body = originRes.body,
                  !.ctype = originRes.ctype, !.clen = originRes.clen,
                  !.cc = originRes.cc]

r2EdgeTask(url, res) ==
    [Task0 EXCEPT !.kind = "r2save", !.key = url, !.body = res.body,
                  !.ttl = R2_EDGE_TTL]

\* A bucket whose get cannot throw
MutGetNeverThrows(o, r2Key) ==
    IF r2Key \in DOMAIN bucket THEN Some(bucket[r2Key]) ELSE {}

\* Step 4, lines 93-127: the object, or nothing when the bucket has none or
\* the get threw into the catch of line 125
bucketGet(o, r2Key) ==
    IF "bucketGet" \notin o.fail /\ r2Key \in DOMAIN bucket
    THEN Some(bucket[r2Key]) ELSE {}

\* A storage mode that hands every request to the web handler
MutStorageAsWebTraffic(r, cfg, o) == handleWebTraffic(r, cfg, o)

handleR2Storage(r, cfg, o) ==
    LET path == r.path
        r2Key == r2KeyOf(path)
    IN IF ~isStaticPath(path) THEN handleWebTraffic(r, cfg, o)
       ELSE IF ~env.STORAGE_BUCKET THEN handleWebTraffic(r, cfg, o)
       ELSE IF invalidKey(r2Key)
       THEN Out([Res0 EXCEPT !.status = 400, !.body = "Invalid path"], <<>>, {})
       ELSE IF bucketGet(o, r2Key) # {}
       THEN LET object == TheOne(bucketGet(o, r2Key))
                response ==
                    [Res0 EXCEPT !.body = object.body,
                                 !.ctype = IF object.ctype = ""
                                           THEN getContentType(r2Key) ELSE object.ctype,
                                 !.stor = "R2-HIT",
                                 !.cc = "public, max-age=31536000, immutable"]
            IN Out(response, <<r2EdgeTask(UrlOf(r), response)>>, {"bget"})
       ELSE LET originRes == fetchFromOrigin(o)
            IN Out(addShieldHeader(originRes, "R2-MISS"),
                   IF originRes.status = 200
                   THEN <<mirrorTask(r2Key, originRes)>> ELSE <<>>,
                   {"bget", "origin"})

----------------------------------------------------------------------------
(* The LLM gateway router and its semantic cache *)

RECURSIVE JoinNL(_)
JoinNL(parts) ==
    IF parts = <<>> THEN ""
    ELSE IF Len(parts) = 1 THEN parts[1]
    ELSE parts[1] \o "\n" \o JoinNL(Tail(parts))

RECURSIVE UserContents(_)
UserContents(msgs) ==
    IF msgs = <<>> THEN <<>>
    ELSE IF msgs[1].role = "user"
         THEN <<msgs[1].content>> \o UserContents(Tail(msgs))
         ELSE UserContents(Tail(msgs))

\* JSON.stringify of an array of turns: every turn, its role included
RECURSIVE StringifyTurns(_)
StringifyTurns(msgs) ==
    IF msgs = <<>> THEN ""
    ELSE msgs[1].role \o ":" \o msgs[1].content
         \o (IF Len(msgs) = 1 THEN "" ELSE ",") \o StringifyTurns(Tail(msgs))

\* JSON.stringify of the whole object: the model it names is part of it
StringifyData(body) ==
    "{" \o (IF body.model = "" THEN "" ELSE "model:" \o body.model \o ",")
        \o body.text \o "}"

\* extractPromptForEmbedding: the user messages joined by newlines, the prompt
\* or input field, the serialized contents or object, or the raw body when it
\* is not JSON
extractPromptForEmbedding(body) ==
    CASE body.fmt = "messages" -> JoinNL(UserContents(body.msgs))
      [] body.fmt \in {"prompt", "input"} -> body.text
      [] body.fmt = "contents" -> "[" \o StringifyTurns(body.msgs) \o "]"
      [] body.fmt = "invalid" -> body.text
      [] OTHER -> StringifyData(body)

\* promptText.substring(0, 2000)
safePromptOf(promptText) ==
    IF Len(promptText) <= MAX_PROMPT_LEN THEN promptText
    ELSE SubSeq(promptText, 1, MAX_PROMPT_LEN)

\* generateEmbedding: the vector is determined by the text embedded
generateEmbedding(text) == <<"bge", text>>

\* Cosine similarity of two embeddings in hundredths. The embedding model is
\* outside the program: here texts that open with the same word are
\* paraphrases of each other (95), the same text scores 100, others 40.
RECURSIVE FirstWord(_)
FirstWord(text) ==
    IF text = "" \/ SubSeq(text, 1, 1) = " " THEN ""
    ELSE SubSeq(text, 1, 1) \o FirstWord(SubSeq(text, 2, Len(text)))

Cosine(e1, e2) ==
    IF e1 = e2 THEN 100
    ELSE IF FirstWord(e1[2]) = FirstWord(e2[2]) THEN 95
    ELSE 40

\* semanticHashString: the digest is determined by the text
semanticHashString(str) == "h(" \o str \o ")"

\* SEMANTIC_DB.query(embedding, {topK: 1}): the ids that share the best score.
\* Which of them comes first is the index's choice.
NearestIds(embedding) ==
    {id \in DOMAIN vecs :
        \A other \in DOMAIN vecs :
            Cosine(embedding, vecs[other].values) <= Cosine(embedding, vecs[id].values)}

\* CLOUDEDGING_CACHE.get(id): null once the entry has expired
kvGet(id) ==
    IF id \in DOMAIN kv /\ now < kv[id].exp THEN Some(kv[id].text) ELSE {}

\* A threshold that only an identical prompt reaches
MutThresholdExact(cfg) == 100

semThreshold(cfg) ==
    IF cfg.semantic_cache_threshold = 0 THEN DEFAULT_SEM_THRESHOLD
    ELSE cfg.semantic_cache_threshold

\* score >= threshold
MutScorePassesAlways(score, threshold) == TRUE

scorePasses(score, threshold) == score >= threshold

\* A lookup whose failures end the request with an error response
MutLookupFailsClosed(r, cfg, o, best, provider) ==
    IF o.fail \cap {"embed", "vquery", "kvGet"} # {} \/ ~env.CLOUDEDGING_CACHE
    THEN [hit |-> TRUE, threw |-> FALSE, fx |-> {"embed"},
          res |-> [Res0 EXCEPT !.status = 500, !.body = "Semantic cache error"]]
    ELSE [hit |-> FALSE, threw |-> FALSE, res |-> Res0, fx |-> {"embed", "vquery"}]

\* semanticCachePipeline: hit with a response, miss (null), or a throw
semanticCachePipeline(r, cfg, o, best, provider) ==
    LET promptText == extractPromptForEmbedding(r.body)
        threshold == semThreshold(cfg)
        embedding == generateEmbedding(safePromptOf(promptText))
        miss(fx) == [hit |-> FALSE, threw |-> FALSE, res |-> Res0, fx |-> fx]
        throw(fx) == [hit |-> FALSE, threw |-> TRUE, res |-> Res0, fx |-> fx]
    IN IF promptText = "" \/ Len(promptText) < MIN_PROMPT_LEN THEN miss({})
       ELSE IF "embed" \in o.fail THEN throw({"embed"})
       ELSE IF "vquery" \in o.fail THEN throw({"embed", "vquery"})
       ELSE IF best = {} THEN miss({"embed", "vquery"})
       ELSE LET id == TheOne(best)
                score == Cosine(embedding, vecs[id].values)
            IN IF ~scorePasses(score, threshold) THEN miss({"embed", "vquery"})
               ELSE IF ~env.CLOUDEDGING_CACHE \/ "kvGet" \in o.fail
               THEN throw({"embed", "vquery", "kvGet"})
               ELSE IF kvGet(id) # {}
               THEN [hit |-> TRUE, threw |-> FALSE,
                     res |-> [Res0 EXCEPT !.body = TheOne(kvGet(id)),
                                          !.ctype = "application/json",
                                          !.tag = "HIT", !.aic = "SEMANTIC-HIT",
                                          !.score = score, !.prov = provider,
                                          !.ver = "3.0.0"],
                     fx |-> {"embed", "vquery", "kvGet"}]
               ELSE miss({"embed", "vquery", "kvGet"})

\* A validation that checks the method only
MutValidateMethodOnly(r, cfg) ==
    IF r.method \notin {"POST", "GET", "PUT", "PATCH"}
    THEN Some([Res0 EXCEPT !.status = 405, !.body = "Method not allowed",
                           !.ctype = "application/json", !.hdrs = {"allow"}])
    ELSE {}

validateAIRequest(r, cfg) ==
    LET maxSize == IF cfg.ai_max_request_size = 0 THEN 10485760
                   ELSE cfg.ai_max_request_size
    IN IF r.method \notin {"POST", "GET", "PUT", "PATCH"}
       THEN Some([Res0 EXCEPT !.status = 405, !.body = "Method not allowed",
                              !.ctype = "application/json", !.hdrs = {"allow"}])
       ELSE IF r.method \in {"POST", "PUT", "PATCH"} /\ ~Includes(r.ctype, "application/json")
       THEN Some([Res0 EXCEPT !.status = 400, !.body = "Invalid Content-Type",
                              !.ctype = "application/json"])
       ELSE IF r.clen > maxSize
       THEN Some([Res0 EXCEPT !.status = 413, !.body = "Request too large",
                              !.ctype = "application/json"])
       ELSE {}

detectProviderFromPath(path) ==
    IF Includes(path, "/v1/messages") \/ Includes(path, "/v1/complete") THEN "anthropic"
    ELSE IF Includes(path, "/projects/")
            /\ (Includes(path, "/locations/") \/ Includes(path, "/publishers/"))
    THEN "vertex-ai"
    ELSE IF Includes(path, "/openai/deployments/") THEN "azure-openai"
    ELSE IF Includes(path, "/model/")
            /\ (Includes(path, "anthropic.") \/ Includes(path, "amazon."))
    THEN "aws-bedrock"
    ELSE IF Includes(path, "/models/gemini") \/ Includes(path, "/generativelanguage")
    THEN "google-ai-studio"
    ELSE IF \/ Includes(path, "/chat/completions") \/ Includes(path, "/embeddings")
            \/ Includes(path, "/v1/models") \/ Includes(path, "/images/generations")
    THEN "openai"
    ELSE "unknown"

aiTtl(cfg) == IF cfg.ai_cache_ttl = 0 THEN DEFAULT_AI_TTL ELSE cfg.ai_cache_ttl

semStoreTask(r, response, cfg) ==
    [Task0 EXCEPT !.kind = "semstore", !.rbody = r.body, !.body = response.body,
                  !.ttl = aiTtl(cfg)]

analyticsTask == [Task0 EXCEPT !.kind = "analytics"]

\* handleAIError
handleAIError(o, provider) ==
    IF "upstream429" \in o.fail
    THEN [Res0 EXCEPT !.status = 429, !.retry = "60", !.body = "gateway_error",
                      !.ctype = "application/json", !.prov = provider]
    ELSE [Res0 EXCEPT !.status = 502, !.body = "gateway_error",
                      !.ctype = "application/json", !.prov = provider]

\* createAIResponse: the upstream response with the shield's AI headers
createAIResponse(response, provider) ==
    [response EXCEPT !.prov = provider, !.ver = "3.0.0"]

\* A streaming relay that keeps the upstream's headers
MutStreamKeepsHeaders(response, provider) ==
    [response EXCEPT !.prov = provider, !.ver = "3.0.0"]

\* createStreamingResponse: the upstream body under fresh headers
createStreamingResponse(response, provider) ==
    [Res0 EXCEPT !.status = response.status, !.body = response.body,
                 !.ctype = response.ctype, !.cc = "no-cache",
                 !.prov = provider, !.ver = "3.0.0"]

\* body: hasBody ? clonedRequest.body : null
forwardedBody(r) == IF r.method \in {"POST", "PUT", "PATCH"} THEN r.body ELSE Body0

\* fetch(newRequest): one call of the upstream gateway
Forwarded(out, r) == [out EXCEPT !.fwd = <<forwardedBody(r)>>]

handleAIGateway(r, cfg, o, best) ==
    IF cfg.ai_gateway_id = ""
    THEN Out([Res0 EXCEPT !.status = 500, !.body = "AI Gateway not configured"], <<>>, {})
    ELSE IF env.ACCOUNT_ID = ""
    THEN Out([Res0 EXCEPT !.status = 500, !.body = "ACCOUNT_ID missing"], <<>>, {})
    ELSE
    LET provider == IF r.xprov # "" THEN r.xprov ELSE detectProviderFromPath(r.path)
        semanticEnabled == cfg.semantic_cache_enabled /\ env.SEMANTIC_DB /\ env.AI
        lookup == IF semanticEnabled /\ r.method = "POST"
                  THEN semanticCachePipeline(r, cfg, o, best, provider)
                  ELSE [hit |-> FALSE, threw |-> FALSE, res |-> Res0, fx |-> {}]
    IN IF provider = "unknown" THEN handleWebTraffic(r, cfg, o)
       ELSE IF validateAIRequest(r, cfg) # {}
       THEN Out(TheOne(validateAIRequest(r, cfg)), <<>>, {})
       ELSE IF lookup.hit THEN Out(lookup.res, <<>>, lookup.fx)
       ELSE IF {"upstream", "upstream429"} \cap o.fail # {}
       THEN Forwarded(Out(handleAIError(o, provider), <<>>,
                          lookup.fx \cup {"upstream"}), r)
       ELSE LET response == o.upstream
                ok == response.status >= 200 /\ response.status <= 299
            IN IF Includes(response.ctype, "text/event-stream")
                  \/ Includes(response.ctype, "stream")
               THEN Forwarded(Out(createStreamingResponse(response, provider), <<>>,
                                  lookup.fx \cup {"upstream"}), r)
               ELSE Forwarded(Out(createAIResponse(response, provider),
                                  (IF semanticEnabled /\ ok /\ r.method = "POST"
                                   THEN <<semStoreTask(r, response, cfg)>> ELSE <<>>)
                                  \o <<analyticsTask>>,
                                  lookup.fx \cup {"upstream"}), r)

----------------------------------------------------------------------------
(* security.js *)

HexDigits == "0123456789ABCDEFabcdef"

IsHex(c) == \E i \in 1..Len(HexDigits) : SubSeq(HexDigits, i, i) = c

\* The escapes the model's queries use, and the character each stands for
PctTable ==
    [e \in {"%3C", "%3E", "%20", "%2E", "%2F", "%3D"} |->
        CASE e = "%3C" -> "<" [] e = "%3E" -> ">" [] e = "%20" -> " "
          [] e = "%2E" -> "." [] e = "%2F" -> "/" [] OTHER -> "="]

\* A decoder that passes a stray % through instead of throwing
MutDecodeLenient(s) == [ok |-> TRUE, str |-> s]

\* decodeURIComponent: the decoded text, or a URIError for a % that does not
\* start an escape
RECURSIVE decodeURIComponent(_)
decodeURIComponent(s) ==
    IF s = "" THEN [ok |-> TRUE, str |-> ""]
    ELSE IF SubSeq(s, 1, 1) # "%"
    THEN LET rest == decodeURIComponent(SubSeq(s, 2, Len(s)))
         IN [ok |-> rest.ok, str |-> SubSeq(s, 1, 1) \o rest.str]
    ELSE IF Len(s) < 3 \/ ~IsHex(SubSeq(s, 2, 2)) \/ ~IsHex(SubSeq(s, 3, 3))
    THEN [ok |-> FALSE, str |-> ""]
    ELSE LET rest == decodeURIComponent(SubSeq(s, 4, Len(s)))
             esc == "%" \o SubSeq(s, 2, 2) \o SubSeq(s, 3, 3)
             up == CHOOSE e \in DOMAIN PctTable \cup {"?"} :
                       e = "?" \/ ToLower(e) = ToLower(esc)
         IN [ok |-> rest.ok,
             str |-> (IF up = "?" THEN "?" ELSE PctTable[up]) \o rest.str]

rlKey(r) == "RL_" \o env.CLIENT_ID \o "_" \o r.ip

\* CLOUDEDGING_CACHE.get(limitKey) and parseInt(currentValue || "0")
rlRead(key) == IF key \in DOMAIN rl /\ now < rl[key].exp THEN rl[key].n ELSE 0

rlThreshold(cfg) ==
    IF cfg.rate_limit_threshold = 0 THEN DEFAULT_RL_THRESHOLD
    ELSE cfg.rate_limit_threshold

\* currentCount >= threshold
MutOverLimitOffByOne(currentCount, threshold) == currentCount > threshold

overLimit(currentCount, threshold) == currentCount >= threshold

\* A counter read that rejects when it fails
MutReadFailsClosed(o, currentCount, threshold) ==
    "rlGet" \in o.fail \/ currentCount >= threshold

\* The try block of rule C: the read succeeded and the count is at the
\* threshold; a read that throws lands in the empty catch
rateLimited(o, currentCount, threshold) ==
    "rlGet" \notin o.fail /\ overLimit(currentCount, threshold)

rlIncTask(key, current) == [Task0 EXCEPT !.kind = "rlinc", !.key = key, !.cur = current]

\* purgeToken !== (config.purge_secret || env.PURGE_SECRET); an absent header
\* is null and an absent secret undefined, which differ
MutPurgeDeniedNever(r, cfg) == FALSE

purgeDenied(r, cfg) ==
    LET secret == IF cfg.purge_secret # "" THEN cfg.purge_secret ELSE env.PURGE_SECRET
    IN secret = "" \/ r.token # secret

\* A purge that reports success and deletes nothing
MutDeleteNothing(r, o) == [threw |-> FALSE, del |-> {}]

\* await caches.default.delete(request.url): the urls deleted, or a throw
cacheDelete(r, o) ==
    IF "cacheDelete" \in o.fail THEN [threw |-> TRUE, del |-> {}]
    ELSE [threw |-> FALSE, del |-> {UrlOf(r)}]

\* A pattern filter that matches everything
MutWafBlocksAll(r, searchString) == TRUE

\* Rule E, the pattern filter
wafBlocks(r, searchString) ==
    /\ r.search # "" \/ Includes(r.path, "..")
    /\ \/ TestAnyI(searchString \o r.path, {"<script>", "UNION SELECT", "OR 1=1"})
       \/ Includes(searchString \o r.path, "../")

\* runSecurityPipeline: res is {} when all checks passed (null)
Gate(res, sched, fx, del, threw) ==
    [res |-> res, sched |-> sched, fx |-> fx, del |-> del, threw |-> threw]

runSecurityPipeline(r, cfg, o) ==
    LET country == IF r.country = "" THEN "XX" ELSE r.country
        isApiPath == TestAny(r.path, {"/api", "/v1", "/v2", "/v3", "/graphql", "/rest",
                                      "/models", "/chat", "/embeddings", "/messages"})
        rlOn == env.CLOUDEDGING_CACHE /\ cfg.rate_limit_enabled
        rlOk == rlOn /\ "rlGet" \notin o.fail
        currentCount == rlRead(rlKey(r))
        sched == IF rlOk THEN <<rlIncTask(rlKey(r), currentCount)>> ELSE <<>>
        fx == IF rlOn THEN {"rlGet"} ELSE {}
        decoded == decodeURIComponent(r.search)
    IN IF r.method = "OPTIONS"
          /\ (cfg.mode = "API" \/ cfg.mode = "AI_INFERENCE" \/ isApiPath)
       THEN Gate(Some([Res0 EXCEPT !.status = 204,
                                   !.hdrs = corsHeaders \cup {"access-control-max-age"}]),
                 <<>>, {}, {}, FALSE)
       ELSE IF cfg.blocked_countries # {} /\ country \in cfg.blocked_countries
       THEN Gate(Some([Res0 EXCEPT !.status = 451, !.body = "Forbidden"]),
                 <<>>, {}, {}, FALSE)
       ELSE IF rlOn /\ rateLimited(o, currentCount, rlThreshold(cfg))
       THEN Gate(Some([Res0 EXCEPT !.status = 429, !.retry = "60",
                                   !.ctype = "application/json",
                                   !.body = "Rate limit exceeded"]),
                 <<>>, fx, {}, FALSE)
       ELSE IF r.cmd = "PURGE"
       THEN IF purgeDenied(r, cfg)
            THEN Gate(Some([Res0 EXCEPT !.status = 403, !.body = "Forbidden"]),
                      sched, fx, {}, FALSE)
            ELSE IF cacheDelete(r, o).threw
            THEN Gate(Some([Res0 EXCEPT !.status = 500, !.body = "Purge Failed"]),
                      sched, fx \cup {"delete"}, {}, FALSE)
            ELSE Gate(Some([Res0 EXCEPT !.status = 200, !.body = "Cache Purged"]),
                      sched, fx \cup {"delete"}, cacheDelete(r, o).del, FALSE)
       ELSE IF ~decoded.ok THEN Gate({}, sched, fx, {}, TRUE)
       ELSE IF wafBlocks(r, decoded.str)
       THEN Gate(Some([Res0 EXCEPT !.status = 403, !.body = "Forbidden"]),
                 sched, fx, {}, FALSE)
       ELSE Gate({}, sched, fx, {}, FALSE)

\* An increment that counts the request twice
MutIncrementTwice(store, key, current) ==
    [k \in DOMAIN store \cup {key} |->
        IF k = key THEN [n |-> current + 2, exp |-> now + RL_WINDOW_S * 1000]
        ELSE store[k]]

\* incrementRateLimit, as run at time `now`: put(key, current + 1, {expirationTtl: 60})
incrementRateLimit(store, key, current) ==
    [k \in DOMAIN store \cup {key} |->
        IF k = key THEN [n |-> current + 1, exp |-> now + RL_WINDOW_S * 1000]
        ELSE store[k]]

----------------------------------------------------------------------------
(* core.js: the dispatcher *)

\* A registry in which every mode is web traffic
MutEveryModeWeb(mode) == "handleWebTraffic"

\* FEATURE_HANDLERS[config.mode] || handleWebTraffic
FeatureHandler(mode) ==
    CASE mode \in {"STANDARD", "SAAS", "API", "REALTIME"} -> "handleWebTraffic"
      [] mode \in {"ECOMMERCE", "IOT", "NEWS", "STORAGE_MIGRATION"} -> "handleR2Storage"
      [] mode = "AI_INFERENCE" -> "handleAIGateway"
      [] OTHER -> "handleWebTraffic"

RunHandler(r, cfg, o, best) ==
    CASE FeatureHandler(cfg.mode) = "handleR2Storage" -> handleR2Storage(r, cfg, o)
      [] FeatureHandler(cfg.mode) = "handleAIGateway" -> handleAIGateway(r, cfg, o, best)
      [] OTHER -> handleWebTraffic(r, cfg, o)

\* handleWebSocket: the origin's answer relayed, 502 when the fetch rejects
handleWebSocket(o) ==
    IF o.originThrows THEN [Res0 EXCEPT !.status = 502, !.body = "WS Failed"]
    ELSE o.origin

\* An upgrade test without the trim and the lower-casing
MutUpgradeVerbatim(r) == r.upgrade = "websocket"

\* (request.headers.get("Upgrade") || "").toLowerCase().trim() === "websocket"
isUpgrade(r) == ToLower(Trim(r.upgrade)) = "websocket"

\* A fetch that fortifies the gate's response as it does the handler's
MutFortifyGate(r, o, cfg, gate, h) ==
    LET error == [Res0 EXCEPT !.status = 500, !.body = "Shield Error"]
    IN IF isUpgrade(r)
       THEN [by |-> "ws", res |-> handleWebSocket(o), sched |-> <<>>,
             fx |-> {"origin"}, del |-> {}, fwd |-> <<>>, loaded |-> FALSE]
       ELSE IF gate.threw
       THEN [by |-> "error", res |-> error, sched |-> gate.sched, fx |-> gate.fx,
             del |-> gate.del, fwd |-> <<>>, loaded |-> TRUE]
       ELSE IF gate.res # {}
       THEN [by |-> "gate", res |-> fortifyResponse(TheOne(gate.res), cfg, r),
             sched |-> gate.sched, fx |-> gate.fx, del |-> gate.del, fwd |-> <<>>,
             loaded |-> TRUE]
       ELSE IF h.threw
       THEN [by |-> "error", res |-> error, sched |-> gate.sched \o h.sched,
             fx |-> gate.fx \cup h.fx, del |-> {}, fwd |-> h.fwd, loaded |-> TRUE]
       ELSE [by |-> FeatureHandler(cfg.mode), res |-> fortifyResponse(h.res, cfg, r),
             sched |-> gate.sched \o h.sched, fx |-> gate.fx \cup h.fx,
             del |-> {}, fwd |-> h.fwd, loaded |-> TRUE]

\* The body of fetch after the config load, given what the security gate and
\* the mode handler return: who answered (by), with what, and what was done
DispatchWith(r, o, cfg, gate, h) ==
    LET error == [Res0 EXCEPT !.status = 500, !.body = "Shield Error"]
    IN IF isUpgrade(r)
       THEN [by |-> "ws", res |-> handleWebSocket(o), sched |-> <<>>,
             fx |-> {"origin"}, del |-> {}, fwd |-> <<>>, loaded |-> FALSE]
       ELSE IF gate.threw
       THEN [by |-> "error", res |-> error, sched |-> gate.sched, fx |-> gate.fx,
             del |-> gate.del, fwd |-> <<>>, loaded |-> TRUE]
       ELSE IF gate.res # {}
       THEN [by |-> "gate", res |-> TheOne(gate.res), sched |-> gate.sched,
             fx |-> gate.fx, del |-> gate.del, fwd |-> <<>>, loaded |-> TRUE]
       ELSE IF h.threw
       THEN [by |-> "error", res |-> error, sched |-> gate.sched \o h.sched,
             fx |-> gate.fx \cup h.fx, del |-> {}, fwd |-> h.fwd, loaded |-> TRUE]
       ELSE [by |-> FeatureHandler(cfg.mode), res |-> fortifyResponse(h.res, cfg, r),
             sched |-> gate.sched \o h.sched, fx |-> gate.fx \cup h.fx,
             del |-> {}, fwd |-> h.fwd, loaded |-> TRUE]

Dispatch(r, o, cfg, best) ==
    TheOne({DispatchWith(r, o, cfg, gate, h) :
                gate \in {runSecurityPipeline(r, cfg, o)},
                h \in {RunHandler(r, cfg, o, best)}})

----------------------------------------------------------------------------
(* History kept for the properties; the program never reads it *)

\* hit:      url -> the body of the last HIT served for it since its last purge
\* rewrote:  urls whose entry a deferred task has written since that HIT
\* owedAny:  bucket keys a miss fetched with mirrorable headers, whatever the status
\* owed:     <<bucket key, body>> a miss fetched with status 200 and mirrorable headers
\* putFailed: bucket keys whose mirror write threw
\* admits:   key -> the times of the last requests the rate limiter let through
\* exact:    keys for which every increment so far landed before the next read
\* inexact:  keys for which some increment was lost or still pending at a read
\* stored:   the semantic-cache store that completed in the last step, if any
\* load:     what the last call of loadConfig returned, and from where
\* cfgAt:    the load that filled CACHED_CONFIG: when it started, when and
\*           what it read from the store (kept by the steps of loadConfig)
\* writes:   the writes to the config store, in order, with their times
\* uncaught: the kinds of task that ended with a rejection nobody caught
\* epoch:    key -> when the counter that the last write replaced had expired
\* refreshed: url -> the last refresh that got a 200 and no request since: the
\*           body it fetched, when, and whether the entry is still its write
Hist0 ==
    [hit |-> <<>>, rewrote |-> {}, owedAny |-> {}, owed |-> {}, putFailed |-> {},
     admits |-> <<>>, inexact |-> {}, stored |-> {}, load |-> {}, cfgAt |-> {},
     writes |-> <<>>, uncaught |-> {}, epoch |-> <<>>, refreshed |-> <<>>]

\* The headers of an origin response that the mirroring rule reads
Mirrorable(res) ==
    /\ res.clen > 0 /\ res.clen < 100 * 1024 * 1024
    /\ TestAny(res.ctype, mirrorableTypes)
    /\ ~Includes(res.cc, "no-store") /\ ~Includes(res.cc, "private")

Put(f, k, v) == [x \in DOMAIN f \cup {k} |-> IF x = k THEN v ELSE f[x]]

Drop(f, K) == [x \in DOMAIN f \ K |-> f[x]]

At(f, k, default) == IF k \in DOMAIN f THEN f[k] ELSE default

\* The last n elements of a sequence
LastN(q, n) == IF Len(q) <= n THEN q ELSE SubSeq(q, Len(q) - n + 1, Len(q))

SeqToBag(q) ==
    LET S == {q[i] : i \in 1..Len(q)}
    IN [t \in S |-> Cardinality({i \in 1..Len(q) : q[i] = t})]

PendingKinds(kind, key) ==
    {t \in BagToSet(tasks) : t.kind = kind /\ t.key = key}

HistAfterFetch(r, o, d, cfg) ==
    LET url == UrlOf(r)
        key == r2KeyOf(r.path)
        isMiss == d.res.tag = "R2-MISS"
        rk == rlKey(r)
        limited == d.by # "ws" /\ "rlGet" \in d.fx
        admitted == limited /\ ~(d.by = "gate" /\ d.res.status = 429)
    IN [hist EXCEPT
          !.hit = IF d.del # {} THEN Drop(@, d.del)
                  ELSE IF d.res.tag = "HIT" /\ d.res.aic = "" THEN Put(@, url, d.res.body)
                  ELSE @,
          !.rewrote = IF d.del # {} THEN @ \ d.del
                      ELSE IF d.res.tag = "HIT" /\ d.res.aic = "" THEN @ \ {url}
                      ELSE @,
          !.owedAny = IF isMiss /\ Mirrorable(d.res) THEN @ \cup {key} ELSE @,
          !.owed = IF isMiss /\ d.res.status = 200 /\ Mirrorable(d.res)
                   THEN @ \cup {<<key, d.res.body>>} ELSE @,
          !.admits = IF admitted
                     THEN Put(@, rk, LastN(Append(At(@, rk, <<>>), now), rlThreshold(cfg)))
                     ELSE @,
          !.inexact = IF limited /\ (PendingKinds("rlinc", rk) # {} \/ "rlGet" \in o.fail)
                      THEN @ \cup {rk} ELSE @,
          !.refreshed = IF d.del # {} THEN Drop(@, d.del)
                        ELSE IF /\ shouldCache(r, cfg) /\ d.res.aic = "" /\ d.res.stor = ""
                                /\ d.res.tag \in {"HIT", "SWR", "MISS", "BYPASS"}
                        THEN Drop(@, {url})
                        ELSE @,
          !.stored = {}]

----------------------------------------------------------------------------
(* The steps *)

\* The nearest neighbours the index may return for the request's prompt
QueryResults(r) ==
    LET embedding == generateEmbedding(safePromptOf(extractPromptForEmbedding(r.body)))
    IN IF r.body.fmt = "none" \/ DOMAIN vecs = {} THEN {{}}
       ELSE {Some(id) : id \in NearestIds(embedding)}

\* One request, from arrival to response
Fetch(r, o) ==
    \E best \in QueryResults(r) :
    \E lc \in {loadConfig(o)} :
    \E d \in {Dispatch(r, o, lc.config, best)} :
        /\ BagCardinality(tasks) + Len(d.sched) <= MaxTasks
        /\ tasks' = tasks (+) SeqToBag(d.sched)
        /\ edge' = Drop(edge, d.del)
        /\ cachedConfig' = IF d.loaded THEN lc.cached ELSE cachedConfig
        /\ lastConfigFetch' = IF d.loaded THEN lc.last ELSE lastConfigFetch
        /\ resp' = [req |-> r, by |-> d.by, res |-> d.res, sched |-> d.sched,
                    fx |-> d.fx, del |-> d.del, fwd |-> d.fwd, cfg |-> lc.config,
                    ext |-> o.fail \cup (IF o.originThrows THEN {"origin"} ELSE {}),
                    pre |-> [entry |-> IF UrlOf(r) \in DOMAIN edge
                                       THEN Some(edge[UrlOf(r)]) ELSE {},
                             obj |-> IF r2KeyOf(r.path) \in DOMAIN bucket
                                     THEN Some(bucket[r2KeyOf(r.path)]) ELSE {},
                             failedPut |-> r2KeyOf(r.path) \in hist.putFailed,
                             at |-> now,
                             count |-> rlRead(rlKey(r)),
                             near |-> {[id |-> id,
                                        score |-> Cosine(generateEmbedding(safePromptOf(
                                                      extractPromptForEmbedding(r.body))),
                                                         vecs[id].values),
                                        payload |-> kvGet(id)] : id \in best},
                             hit |-> IF UrlOf(r) \in DOMAIN hist.hit
                                     THEN Some(hist.hit[UrlOf(r)]) ELSE {},
                             rewrote |-> UrlOf(r) \in hist.rewrote,
                             refreshed |-> IF UrlOf(r) \in DOMAIN hist.refreshed
                                           THEN Some(hist.refreshed[UrlOf(r)]) ELSE {},
                             admits |-> At(hist.admits, rlKey(r), <<>>),
                             inexact |-> rlKey(r) \in hist.inexact
                                         \/ PendingKinds("rlinc", rlKey(r)) # {}
                                         \/ "rlGet" \in o.fail,
                             stored |-> hist.stored]]
        /\ hist' = HistAfterFetch(r, o, d, lc.config)
        /\ UNCHANGED <<loads, now, env, cfgStore, rl, bucket, kv, vecs>>

Settle(t) == tasks' = tasks (-) SetToBag({t})

\* Another task wrote the entry of the url after its refresh did
Overwritten(refreshed, url) ==
    IF url \in DOMAIN refreshed THEN [refreshed EXCEPT ![url].kept = FALSE]
    ELSE refreshed

\* saveToCache after a MISS (web_handler.js step 5): the promise is handed to
\* waitUntil as it is, so a put that rejects rejects the task
RunSave(t, o) ==
    /\ t \in BagToSet(tasks) /\ t.kind = "save"
    /\ Settle(t)
    /\ edge' = IF "cachePut" \in o.fail THEN edge
               ELSE saveToCache(edge, t.key, t, t.ttl)
    /\ hist' = [hist EXCEPT !.rewrote = IF "cachePut" \in o.fail THEN @
                                        ELSE @ \cup {t.key},
                            !.refreshed = IF "cachePut" \in o.fail THEN @
                                          ELSE Overwritten(@, t.key),
                            !.uncaught = IF "cachePut" \in o.fail
                                         THEN @ \cup {t.kind} ELSE @,
                            !.stored = {}]
    /\ UNCHANGED <<loads, now, env, cfgStore, cachedConfig, lastConfigFetch, rl, bucket,
                   kv, vecs, resp>>

\* The edge-cache write after an R2 hit
RunR2Save(t, o) ==
    /\ t \in BagToSet(tasks) /\ t.kind = "r2save"
    /\ Settle(t)
    /\ edge' = IF "cachePut" \in o.fail THEN edge
               ELSE saveToCache(edge, t.key, t, t.ttl)
    /\ hist' = [hist EXCEPT !.rewrote = IF "cachePut" \in o.fail THEN @
                                        ELSE @ \cup {t.key},
                            !.refreshed = IF "cachePut" \in o.fail THEN @
                                          ELSE Overwritten(@, t.key),
                            !.stored = {}]
    /\ UNCHANGED <<loads, now, env, cfgStore, cachedConfig, lastConfigFetch, rl, bucket,
                   kv, vecs, resp>>

\* A refresh that stores whatever the origin answered
MutRefreshAnyStatus(t, o) ==
    /\ t \in BagToSet(tasks) /\ t.kind = "refresh"
    /\ Settle(t)
    /\ edge' = saveToCache(edge, t.key, addShieldHeader(fetchFromOrigin(o), "REFRESH"), t.ttl)
    /\ hist' = [hist EXCEPT !.rewrote = @ \cup {t.key}, !.stored = {}]
    /\ UNCHANGED <<loads, now, env, cfgStore, cachedConfig, lastConfigFetch, rl, bucket,
                   kv, vecs, resp>>

\* refreshCache
RunRefresh(t, o) ==
    LET res == fetchFromOrigin(o)
        wrote == res.status = 200 /\ "cachePut" \notin o.fail
    IN /\ t \in BagToSet(tasks) /\ t.kind = "refresh"
       /\ Settle(t)
       /\ edge' = IF wrote
                  THEN saveToCache(edge, t.key, addShieldHeader(res, "REFRESH"), t.ttl)
                  ELSE edge
       /\ hist' = [hist EXCEPT !.rewrote = IF wrote THEN @ \cup {t.key} ELSE @,
                               !.refreshed = IF res.status = 200
                                             THEN Put(@, t.key, [body |-> res.body,
                                                                 at |-> now, kept |-> wrote])
                                             ELSE @,
                               !.stored = {}]
       /\ UNCHANGED <<loads, now, env, cfgStore, cachedConfig, lastConfigFetch, rl, bucket,
                      kv, vecs, resp>>

\* A mirror task whose failed put leaves an object behind
MutMirrorWritesOnFailure(t, o) ==
    /\ t \in BagToSet(tasks) /\ t.kind = "mirror"
    /\ Settle(t)
    /\ bucket' = IF shouldMirror(t)
                 THEN Put(bucket, t.key, [body |-> t.body, ctype |-> t.ctype])
                 ELSE bucket
    /\ hist' = [hist EXCEPT !.putFailed = IF shouldMirror(t) /\ "bucketPut" \in o.fail
                                          THEN @ \cup {t.key} ELSE @,
                            !.stored = {}]
    /\ UNCHANGED <<loads, now, env, cfgStore, cachedConfig, lastConfigFetch, edge, rl,
                   kv, vecs, resp>>

\* The background mirroring of core.js step 6
RunMirror(t, o) ==
    LET put == shouldMirror(t) /\ "bucketPut" \notin o.fail
    IN /\ t \in BagToSet(tasks) /\ t.kind = "mirror"
       /\ Settle(t)
       /\ bucket' = IF put THEN Put(bucket, t.key, [body |-> t.body, ctype |-> t.ctype])
                    ELSE bucket
       /\ hist' = [hist EXCEPT !.putFailed = IF shouldMirror(t) /\ ~put
                                             THEN @ \cup {t.key} ELSE @,
                               !.stored = {}]
       /\ UNCHANGED <<loads, now, env, cfgStore, cachedConfig, lastConfigFetch, edge, rl,
                      kv, vecs, resp>>

\* incrementRateLimit
RunRlInc(t, o) ==
    /\ t \in BagToSet(tasks) /\ t.kind = "rlinc"
    /\ Settle(t)
    /\ rl' = IF "kvPut" \in o.fail THEN rl ELSE incrementRateLimit(rl, t.key, t.cur)
    /\ hist' = [hist EXCEPT !.inexact = IF "kvPut" \in o.fail THEN @ \cup {t.key} ELSE @,
                            !.epoch = IF "kvPut" \notin o.fail /\ t.key \in DOMAIN rl
                                         /\ now >= rl[t.key].exp
                                      THEN Put(@, t.key, rl[t.key].exp) ELSE @,
                            !.stored = {}]
    /\ UNCHANGED <<loads, now, env, cfgStore, cachedConfig, lastConfigFetch, edge, bucket,
                   kv, vecs, resp>>

\* A store that upserts the vector first and writes the payload after it
MutUpsertBeforePut(t, o) ==
    LET promptText == extractPromptForEmbedding(t.rbody)
        safePrompt == safePromptOf(promptText)
        embedding == generateEmbedding(safePrompt)
        hash == semanticHashString(safePrompt)
        id == "prompt-" \o hash \o "-" \o ToString(now)
        runs == /\ env.CLOUDEDGING_CACHE
                /\ ~(promptText = "" \/ Len(promptText) < MIN_PROMPT_LEN)
                /\ t.body # ""
                /\ "embed" \notin o.fail
        upserts == runs /\ "upsert" \notin o.fail
        puts == upserts /\ "kvPut" \notin o.fail
    IN /\ t \in BagToSet(tasks) /\ t.kind = "semstore"
       /\ Settle(t)
       /\ kv' = IF puts
                THEN Put(kv, id, [text |-> t.body, exp |-> now + t.ttl * 1000])
                ELSE kv
       /\ vecs' = IF upserts THEN Put(vecs, id, [values |-> embedding, model |-> "unknown"])
                  ELSE vecs
       /\ hist' = [hist EXCEPT !.stored = IF upserts
                                          THEN Some([prompt |-> promptText, text |-> t.body])
                                          ELSE {}]
       /\ UNCHANGED <<loads, now, env, cfgStore, cachedConfig, lastConfigFetch, edge, rl,
                      bucket, resp>>

\* semanticCacheStore
RunSemStore(t, o) ==
    LET promptText == extractPromptForEmbedding(t.rbody)
        safePrompt == safePromptOf(promptText)
        embedding == generateEmbedding(safePrompt)
        hash == semanticHashString(safePrompt)
        id == "prompt-" \o hash \o "-" \o ToString(now)
        runs == /\ env.CLOUDEDGING_CACHE
                /\ ~(promptText = "" \/ Len(promptText) < MIN_PROMPT_LEN)
                /\ t.body # ""
                /\ "embed" \notin o.fail
        puts == runs /\ "kvPut" \notin o.fail
        upserts == puts /\ "upsert" \notin o.fail
    IN /\ t \in BagToSet(tasks) /\ t.kind = "semstore"
       /\ Settle(t)
       /\ kv' = IF puts
                THEN Put(kv, id, [text |-> t.body, exp |-> now + t.ttl * 1000])
                ELSE kv
       /\ vecs' = IF upserts THEN Put(vecs, id, [values |-> embedding, model |-> "unknown"])
                  ELSE vecs
       /\ hist' = [hist EXCEPT !.stored = IF upserts
                                          THEN Some([prompt |-> promptText, text |-> t.body])
                                          ELSE {}]
       /\ UNCHANGED <<loads, now, env, cfgStore, cachedConfig, lastConfigFetch, edge, rl,
                      bucket, resp>>

\* logAIAnalytics with no analytics binding
RunAnalytics(t) ==
    /\ t \in BagToSet(tasks) /\ t.kind = "analytics"
    /\ Settle(t)
    /\ hist' = [hist EXCEPT !.stored = {}]
    /\ UNCHANGED <<loads, now, env, cfgStore, cachedConfig, lastConfigFetch, edge, rl,
                   bucket, kv, vecs, resp>>

\* loadConfig, line 94-97: `now` is taken, a fresh cached config is returned,
\* a worker without the binding falls back at once, any other call starts
\* the store read
LoadStart(p) ==
    /\ loads[p].pc = "idle"
    /\ IF cacheIsFresh
       THEN /\ hist' = [hist EXCEPT
                          !.load = Some([config |-> TheOne(cachedConfig),
                                         fromCache |-> TRUE, at |-> now,
                                         had |-> TRUE, last |-> lastConfigFetch,
                                         src |-> hist.cfgAt])]
            /\ UNCHANGED <<loads, cachedConfig, lastConfigFetch>>
       ELSE IF ~env.CLOUDEDGING_CONFIG
       THEN /\ cachedConfig' = Some(mergeConfig({}))
            /\ lastConfigFetch' = now
            /\ hist' = [hist EXCEPT
                          !.load = Some([config |-> mergeConfig({}),
                                         fromCache |-> FALSE, at |-> now,
                                         had |-> cachedConfig # {},
                                         last |-> lastConfigFetch,
                                         src |-> Some([Load0 EXCEPT !.start = now,
                                                                    !.readAt = now,
                                                                    !.doneAt = now])]),
                          !.cfgAt = Some([Load0 EXCEPT !.start = now, !.readAt = now,
                                                       !.doneAt = now])]
            /\ UNCHANGED loads
       ELSE /\ loads' = [loads EXCEPT ![p] = [Load0 EXCEPT !.pc = "reading",
                                                           !.start = now]]
            /\ UNCHANGED <<cachedConfig, lastConfigFetch, hist>>
    /\ UNCHANGED <<now, env, cfgStore, edge, rl, bucket, kv, vecs, tasks, resp>>

\* The store answers the get of line 99, or the get throws
LoadRead(p, o) ==
    /\ loads[p].pc = "reading"
    /\ loads' = [loads EXCEPT ![p] =
                    [@ EXCEPT !.pc = "got",
                              !.got = IF "config" \in o.fail THEN {} ELSE cfgStore,
                              !.failed = "config" \in o.fail,
                              !.readAt = now,
                              !.ver = Len(hist.writes)]]
    /\ UNCHANGED <<now, env, cfgStore, cachedConfig, lastConfigFetch, edge, rl,
                   bucket, kv, vecs, tasks, resp, hist>>

\* Lines 100-103: the merge, the assignment of the globals, the return
LoadEnd(p) ==
    /\ loads[p].pc = "got"
    /\ cachedConfig' = Some(mergeConfig(loads[p].got))
    /\ lastConfigFetch' = stampOf(loads[p])
    /\ loads' = [loads EXCEPT ![p] = Load0]
    /\ hist' = [hist EXCEPT
                  !.load = Some([config |-> mergeConfig(loads[p].got),
                                 fromCache |-> FALSE, at |-> loads[p].start,
                                 had |-> FALSE, last |-> lastConfigFetch,
                                 src |-> Some([loads[p] EXCEPT !.doneAt = now])]),
                  !.cfgAt = Some([loads[p] EXCEPT !.doneAt = now])]
    /\ UNCHANGED <<now, env, cfgStore, edge, rl, bucket, kv, vecs, tasks, resp>>

\* The worker is deployed again with other bindings: the globals of core.js
\* lines 10-11 start over, the stores keep what they hold
Redeploy(e) ==
    /\ e # env
    /\ tasks = EmptyBag
    /\ env' = e
    /\ cachedConfig' = {}
    /\ lastConfigFetch' = 0
    /\ resp' = [req |-> Req0, by |-> "none", res |-> Res0, sched |-> <<>>, fx |-> {},
                del |-> {}, fwd |-> <<>>, cfg |-> Config0, ext |-> {},
                pre |-> resp.pre]
    /\ hist' = [hist EXCEPT !.stored = {}]
    /\ UNCHANGED <<now, cfgStore, loads, edge, rl, bucket, kv, vecs, tasks>>

\* The deploy tool replaces the client's config in the store
WriteConfig(c) ==
    /\ Len(hist.writes) < MaxWrites
    /\ cfgStore # Some(c)
    /\ cfgStore' = Some(c)
    /\ hist' = [hist EXCEPT !.writes = Append(@, [at |-> now, cfg |-> c])]
    /\ UNCHANGED <<now, env, cachedConfig, lastConfigFetch, loads, edge, rl,
                   bucket, kv, vecs, tasks, resp>>

\* Time passes
Tick(d) ==
    /\ now + d <= MaxTicks * d
    /\ now' = now + d
    /\ hist' = [hist EXCEPT !.stored = {}]
    /\ UNCHANGED <<loads, env, cfgStore, cachedConfig, lastConfigFetch, edge, rl, bucket,
                   kv, vecs, tasks, resp>>

\* The state of a freshly deployed worker with the given bindings and config
Resp0 ==
    [req |-> Req0, by |-> "none", res |-> Res0, sched |-> <<>>, fx |-> {},
     del |-> {}, fwd |-> <<>>, cfg |-> Config0, ext |-> {},
     pre |-> [entry |-> {}, obj |-> {}, failedPut |-> FALSE, at |-> 0, count |-> 0, near |-> {}, hit |-> {}, rewrote |-> FALSE, refreshed |-> {},
              admits |-> <<>>, inexact |-> FALSE, stored |-> {}]]

DeployedWith(envs, stores) ==
    /\ now = 0
    /\ env \in envs
    /\ cfgStore \in stores
    /\ cachedConfig = {}
    /\ lastConfigFetch = 0
    /\ loads = [p \in 1..MaxLoads |-> Load0]
    /\ edge = <<>>
    /\ rl = <<>>
    /\ bucket = <<>>
    /\ kv = <<>>
    /\ vecs = <<>>
    /\ tasks = EmptyBag
    /\ resp = Resp0
    /\ hist = Hist0

Deployed(e, cfgs) == DeployedWith({e}, {Some(c) : c \in cfgs})

----------------------------------------------------------------------------
(* The web traffic handler under load: modes STANDARD and SAAS *)

HalfHourMs == FRESH_MS \div 2

WebConfigs ==
    {[Config0 EXCEPT !.mode = m, !.cache_ttl = 2 * DEFAULT_CACHE_TTL,
                     !.purge_secret = "s3cret"] : m \in {"STANDARD", "SAAS"}}

WebRequests ==
    {[Req0 EXCEPT !.path = "/page"],
     [Req0 EXCEPT !.path = "/page", !.method = "POST"],
     [Req0 EXCEPT !.path = "/page", !.cookie = "session=abc"],
     [Req0 EXCEPT !.path = "/page", !.cmd = "PURGE", !.token = "s3cret"]}

WebExts ==
    {Ext0,
     [Ext0 EXCEPT !.origin.body = "v2"],
     [Ext0 EXCEPT !.origin.body = "v2", !.origin.cc = "no-store"],
     [Ext0 EXCEPT !.origin.status = 404, !.origin.body = "gone"]}

WebInit == Deployed(Env0, WebConfigs)

WebNext ==
    \/ \E r \in WebRequests, o \in WebExts : Fetch(r, o)
    \/ \E t \in BagToSet(tasks), o \in WebExts : RunSave(t, o)
    \/ \E t \in BagToSet(tasks), o \in WebExts : RunRefresh(t, o)
    \/ Tick(HalfHourMs)

SpecWeb == WebInit /\ [][WebNext]_vars

----------------------------------------------------------------------------
(* The storage mirror in a storage mode: static paths, good and bad *)

JpegBytes == 50 * 1000

R2Configs == {[Config0 EXCEPT !.mode = "ECOMMERCE"]}

R2Requests ==
    {[Req0 EXCEPT !.path = "/img/a.jpg"],
     [Req0 EXCEPT !.path = "/img/a.jpg", !.cookie = "session=abc"],
     [Req0 EXCEPT !.path = "//a.jpg"],
     [Req0 EXCEPT !.path = "/img//a.jpg"],
     [Req0 EXCEPT !.path = "/a..b.jpg"]}

Jpeg ==
    [Res0 EXCEPT !.body = "j1", !.ctype = "image/jpeg", !.clen = JpegBytes,
                 !.hdrs = {"server", "etag"}]

R2Exts ==
    {[Ext0 EXCEPT !.origin = Jpeg],
     [Ext0 EXCEPT !.origin = [Jpeg EXCEPT !.body = "j2", !.cc = "private, max-age=60"]],
     [Ext0 EXCEPT !.origin = [Jpeg EXCEPT !.body = "big", !.clen = MAX_MIRROR_BYTES]],
     [Ext0 EXCEPT !.origin = [Jpeg EXCEPT !.body = "gone", !.status = 404]],
     [Ext0 EXCEPT !.origin = Jpeg, !.fail = {"bucketPut"}]}

R2Init == Deployed(Env0, R2Configs)

R2Next ==
    \/ \E r \in R2Requests, o \in R2Exts : Fetch(r, o)
    \/ \E t \in BagToSet(tasks), o \in R2Exts : RunMirror(t, o)
    \/ \E t \in BagToSet(tasks), o \in R2Exts : RunR2Save(t, o)

SpecR2 == R2Init /\ [][R2Next]_vars

\* The mirror tasks the requests can schedule
R2MirrorTasks ==
    {mirrorTask(r2KeyOf(r.path), fetchFromOrigin(o)) : r \in R2Requests, o \in R2Exts}

\* ctx.waitUntil keeps the worker alive until each mirror task has settled
SpecR2Fair ==
    SpecR2 /\ \A t \in R2MirrorTasks : WF_vars(\E o \in R2Exts : RunMirror(t, o))

----------------------------------------------------------------------------
(* The static-asset scenario, in mode STANDARD and in a storage mode *)

ScenarioConfigs ==
    {[Config0 EXCEPT !.mode = m] : m \in {"STANDARD", "ECOMMERCE", "IOT"}}

ScenarioRequests ==
    {[Req0 EXCEPT !.path = "/img/a.jpg", !.cookie = "session=abc"],
     [Req0 EXCEPT !.path = "/img/a.jpg"]}

ScenarioExts == {[Ext0 EXCEPT !.origin = Jpeg],
                 [Ext0 EXCEPT !.origin = [Jpeg EXCEPT !.body = "j2"]]}

ScenarioInit == Deployed(Env0, ScenarioConfigs)

ScenarioNext ==
    \/ \E r \in ScenarioRequests, o \in ScenarioExts : Fetch(r, o)
    \/ \E t \in BagToSet(tasks), o \in ScenarioExts : RunMirror(t, o)
    \/ \E t \in BagToSet(tasks), o \in ScenarioExts : RunR2Save(t, o)
    \/ \E t \in BagToSet(tasks), o \in ScenarioExts : RunSave(t, o)

SpecScenario == ScenarioInit /\ [][ScenarioNext]_vars

----------------------------------------------------------------------------
(* The rate limiter: one client address, time passing in half minutes *)

RateThreshold == 2

HalfMinuteMs == (RL_WINDOW_S * 1000) \div 2

GateConfigs ==
    {[Config0 EXCEPT !.mode = "API", !.rate_limit_enabled = TRUE,
                     !.rate_limit_threshold = RateThreshold]}

GateRequests ==
    {[Req0 EXCEPT !.path = "/page"],
     [Req0 EXCEPT !.path = "/page", !.method = "POST"]}

GateExts ==
    {Ext0,
     [Ext0 EXCEPT !.fail = {"rlGet"}],
     [Ext0 EXCEPT !.fail = {"kvPut"}]}

GateInit == Deployed(Env0, GateConfigs)

GateNext ==
    \/ \E r \in GateRequests, o \in GateExts : Fetch(r, o)
    \/ \E t \in BagToSet(tasks), o \in GateExts : RunRlInc(t, o)
    \/ Tick(HalfMinuteMs)

SpecGate == GateInit /\ [][GateNext]_vars

----------------------------------------------------------------------------
(* Purge commands against a cached page, with the rate limiter on *)

PurgeConfigs ==
    {[Config0 EXCEPT !.mode = "STANDARD", !.rate_limit_enabled = TRUE,
                     !.rate_limit_threshold = RateThreshold,
                     !.purge_secret = "s3cret"]}

PurgeRequests ==
    {[Req0 EXCEPT !.path = "/page"],
     [Req0 EXCEPT !.path = "/page", !.cmd = "PURGE", !.token = "s3cret"],
     [Req0 EXCEPT !.path = "/page", !.cmd = "PURGE", !.token = "guess"],
     [Req0 EXCEPT !.path = "/page", !.cmd = "PURGE"]}

PurgeExts ==
    {Ext0,
     [Ext0 EXCEPT !.fail = {"cacheDelete"}]}

PurgeInit == Deployed(Env0, PurgeConfigs)

PurgeNext ==
    \/ \E r \in PurgeRequests, o \in PurgeExts : Fetch(r, o)
    \/ \E t \in BagToSet(tasks), o \in PurgeExts : RunRlInc(t, o)
    \/ \E t \in BagToSet(tasks), o \in PurgeExts : RunSave(t, o)

SpecPurge == PurgeInit /\ [][PurgeNext]_vars

----------------------------------------------------------------------------
(* The LLM gateway: chat completions, payloads that expire after a minute *)

MinuteMs == CONFIG_TTL_MS

AIConfigs ==
    {[Config0 EXCEPT !.mode = "AI_INFERENCE", !.ai_gateway_id = "gw",
                     !.ai_cache_ttl = MinuteMs \div 1000]}

Chat(text) ==
    [Req0 EXCEPT !.method = "POST", !.path = "/v1/chat/completions",
                 !.ctype = "application/json", !.clen = 100,
                 !.body = [fmt |-> "messages",
                           msgs |-> << [role |-> "system", content |-> "Be brief."],
                                       [role |-> "user", content |-> text] >>,
                           text |-> "", model |-> ""]]

AIRequests ==
    {Chat("TLA+ is good for what?"),
     Chat("Paris is where?")}

AIExts == {Ext0}

AIInit == Deployed(Env0, AIConfigs)

AINext ==
    \/ \E r \in AIRequests, o \in AIExts : Fetch(r, o)
    \/ \E t \in BagToSet(tasks), o \in AIExts : RunSemStore(t, o)
    \/ \E t \in BagToSet(tasks) : RunAnalytics(t)
    \/ Tick(MinuteMs)

SpecAI == AIInit /\ [][AINext]_vars

----------------------------------------------------------------------------
(* The chat-completions scenario: a prompt, its paraphrase, threshold 0.92 *)

ChatConfigs ==
    {[Config0 EXCEPT !.mode = "AI_INFERENCE", !.ai_gateway_id = "gw",
                     !.semantic_cache_threshold = DEFAULT_SEM_THRESHOLD,
                     !.ai_cache_ttl = MinuteMs \div 1000]}

ChatRequests ==
    {Chat("Summarize TLA+ for me"),
     Chat("Summarize TLA+ in brief")}

ChatExts ==
    {Ext0,
     [Ext0 EXCEPT !.upstream.status = 500, !.upstream.body = "overloaded"]}

ChatInit == Deployed(Env0, ChatConfigs)

ChatNext ==
    \/ \E r \in ChatRequests, o \in ChatExts : Fetch(r, o)
    \/ \E t \in BagToSet(tasks), o \in ChatExts : RunSemStore(t, o)
    \/ \E t \in BagToSet(tasks) : RunAnalytics(t)
    \/ Tick(MinuteMs)

SpecChat == ChatInit /\ [][ChatNext]_vars

----------------------------------------------------------------------------
(* The dispatcher: every mode of the table and one the table does not know *)

DispatchModes ==
    {"STANDARD", "SAAS", "API", "REALTIME", "ECOMMERCE", "IOT", "NEWS",
     "STORAGE_MIGRATION", "AI_INFERENCE", "LEGACY"}

DispatchConfigs ==
    {[Config0 EXCEPT !.mode = m, !.ai_gateway_id = "gw"] : m \in DispatchModes}

PageRequest == [Req0 EXCEPT !.path = "/page"]
ImageRequest == [Req0 EXCEPT !.path = "/img/a.jpg"]
ChatRequest == Chat("Summarize TLA+ for me")

\* The origin answers with an image
JpegExt == [Ext0 EXCEPT !.origin = Jpeg]

Failing(f) == [JpegExt EXCEPT !.fail = {f}]

\* The requests, and the upstream gateway failing under the chat request
DispatchCalls ==
    {<<r, JpegExt>> : r \in {PageRequest, ImageRequest, ChatRequest}}
    \cup {<<ChatRequest, Failing("upstream")>>}

DispatchInit == Deployed(Env0, DispatchConfigs)

DispatchNext ==
    \/ \E c \in DispatchCalls : Fetch(c[1], c[2])
    \/ \E t \in BagToSet(tasks) : RunSave(t, JpegExt)
    \/ \E t \in BagToSet(tasks) : RunMirror(t, JpegExt)
    \/ \E t \in BagToSet(tasks) : RunR2Save(t, JpegExt)
    \/ \E t \in BagToSet(tasks) : RunSemStore(t, JpegExt)
    \/ \E t \in BagToSet(tasks) : RunAnalytics(t)

SpecDispatch == DispatchInit /\ [][DispatchNext]_vars

----------------------------------------------------------------------------
(* Each external call of the pipeline failing on its own *)

FaultConfigs ==
    {[Config0 EXCEPT !.mode = "STANDARD", !.purge_secret = "s3cret"],
     [Config0 EXCEPT !.mode = "API", !.rate_limit_enabled = TRUE,
                     !.rate_limit_threshold = 1],
     [Config0 EXCEPT !.mode = "ECOMMERCE"],
     [Config0 EXCEPT !.mode = "AI_INFERENCE", !.ai_gateway_id = "gw"]}

BadQueryRequest == [Req0 EXCEPT !.path = "/page", !.search = "?q=%zz"]
UpgradeRequest == [Req0 EXCEPT !.path = "/page", !.upgrade = "WebSocket"]
PurgeRequest == [Req0 EXCEPT !.path = "/page", !.cmd = "PURGE", !.token = "s3cret"]

OriginDown == [JpegExt EXCEPT !.originThrows = TRUE]

\* The requests sent to a deployment of each mode, each with the outcomes of
\* the external calls it reaches
FaultCalls(mode) ==
    CASE mode = "STANDARD" ->
            {<<PageRequest, o>> :
                o \in {JpegExt, OriginDown, Failing("config"), Failing("cacheMatch")}}
            \cup {<<BadQueryRequest, JpegExt>>}
            \cup {<<UpgradeRequest, o>> : o \in {JpegExt, OriginDown}}
            \cup {<<PurgeRequest, o>> : o \in {JpegExt, Failing("cacheDelete")}}
      [] mode = "API" ->
            {<<PageRequest, o>> : o \in {JpegExt, Failing("rlGet")}}
      [] mode = "ECOMMERCE" ->
            {<<ImageRequest, o>> : o \in {JpegExt, OriginDown, Failing("bucketGet")}}
      [] OTHER ->
            {<<ChatRequest, o>> :
                o \in {JpegExt, Failing("embed"), Failing("vquery"),
                       Failing("upstream")}}

FaultInit == Deployed(Env0, FaultConfigs)

FaultNext ==
    \/ \E c \in FaultCalls(TheOne(cfgStore).mode) : Fetch(c[1], c[2])
    \/ \E t \in BagToSet(tasks) : RunSave(t, JpegExt)
    \/ \E t \in BagToSet(tasks) : RunMirror(t, JpegExt)
    \/ \E t \in BagToSet(tasks) : RunR2Save(t, JpegExt)
    \/ \E t \in BagToSet(tasks) : RunRlInc(t, JpegExt)
    \/ \E t \in BagToSet(tasks) : RunSemStore(t, JpegExt)
    \/ \E t \in BagToSet(tasks) : RunAnalytics(t)

SpecFaults == FaultInit /\ [][FaultNext]_vars

----------------------------------------------------------------------------
(* The security gate: requests that match several of its rules at once *)

OrderConfigs ==
    {[Config0 EXCEPT !.mode = "STANDARD", !.blocked_countries = {"KP"},
                     !.rate_limit_enabled = TRUE,
                     !.rate_limit_threshold = RateThreshold,
                     !.purge_secret = "s3cret"]}

OrderRequests ==
    {[Req0 EXCEPT !.method = m, !.path = p, !.country = c, !.cmd = k[1],
                  !.token = k[2], !.search = q] :
        m \in {"GET", "OPTIONS"}, p \in {"/page", "/api/items"},
        c \in {"US", "KP"}, k \in {<<"", "">>, <<"PURGE", "s3cret">>},
        q \in {"", "?q=%3Cscript%3E"}}

OrderInit == Deployed(Env0, OrderConfigs)

OrderNext ==
    \/ \E r \in OrderRequests : Fetch(r, Ext0)
    \/ \E t \in BagToSet(tasks) : RunRlInc(t, Ext0)
    \/ \E t \in BagToSet(tasks) : RunSave(t, Ext0)

SpecOrder == OrderInit /\ [][OrderNext]_vars

----------------------------------------------------------------------------
(* The cache decision: modes, paths, credentials and cache directives *)

DecideConfigs ==
    {[Config0 EXCEPT !.mode = m] :
        m \in {"STANDARD", "SAAS", "API", "REALTIME", "ECOMMERCE", "NEWS"}}

DecideRequests ==
    {PageRequest,
     [PageRequest EXCEPT !.cookie = "session=abc"],
     [PageRequest EXCEPT !.cookie = "theme=dark"],
     [PageRequest EXCEPT !.auth = "Bearer t0k"],
     [PageRequest EXCEPT !.cc = "no-cache"],
     [PageRequest EXCEPT !.pragma = "no-cache"],
     [PageRequest EXCEPT !.method = "POST", !.cookie = "Cart=3"],
     [Req0 EXCEPT !.path = "/api/items"],
     [Req0 EXCEPT !.path = "/checkout/pay"]}

DecideExts ==
    {Ext0,
     [Ext0 EXCEPT !.origin.cc = "no-store"],
     [Ext0 EXCEPT !.origin.status = 404, !.origin.body = "gone"]}

DecideInit == Deployed(Env0, DecideConfigs)

DecideNext ==
    \/ \E r \in DecideRequests, o \in DecideExts : Fetch(r, o)
    \/ \E t \in BagToSet(tasks) : RunSave(t, Ext0)

SpecDecide == DecideInit /\ [][DecideNext]_vars

----------------------------------------------------------------------------
\* What the properties say about the last request

\* The request was answered by the web traffic handler (directly or by
\* fall-through from another handler)
ByWebHandler == resp.by \notin {"none", "ws", "gate", "error"} /\ resp.res.stor = ""
                /\ resp.res.tag \in {"HIT", "SWR", "MISS", "BYPASS"} /\ resp.res.aic = ""

SchedKinds == {resp.sched[i].kind : i \in 1..Len(resp.sched)}

CountKind(kind) == Cardinality({i \in 1..Len(resp.sched) : resp.sched[i].kind = kind})

\* The entry the request found was inside the freshness window when it was handled
InsideWindow(entry, at) == at - entry.age < 3600000

\* The handler looked the request up in the edge cache
Cacheable == shouldCache(resp.req, resp.cfg)

\* C1: a POST, PUT, DELETE or PATCH handled by the web traffic handler is never
\* answered from the edge cache and never schedules a cache store: its
\* response comes from the origin and is tagged BYPASS.
C1_WritesBypass ==
    (ByWebHandler /\ isWrite(resp.req)) =>
        /\ resp.res.tag = "BYPASS"
        /\ "origin" \in resp.fx
        /\ SchedKinds \cap {"save", "refresh"} = {}

\* C2 as stated: after a HIT for a url and no purge since, a cacheable request
\* for it that finds the entry inside the freshness window is answered with
\* the body of that HIT and without an origin fetch, whatever ran in between.
C2_SameBodyAfterHit ==
    (ByWebHandler /\ Cacheable /\ resp.pre.hit # {} /\ resp.pre.entry # {}
       /\ InsideWindow(TheOne(resp.pre.entry), resp.pre.at)) =>
        /\ resp.res.tag = "HIT"
        /\ "origin" \notin resp.fx
        /\ resp.res.body = TheOne(resp.pre.hit)

\* C2 as amended: such a request is answered HIT with the body of the entry it
\* found and without an origin fetch; the body is that of the earlier HIT
\* unless a deferred store or refresh wrote the entry in between.
C2_HitStaysHit ==
    (ByWebHandler /\ Cacheable /\ resp.pre.hit # {} /\ resp.pre.entry # {}
       /\ InsideWindow(TheOne(resp.pre.entry), resp.pre.at)) =>
        /\ resp.res.tag = "HIT"
        /\ "origin" \notin resp.fx
        /\ SchedKinds \cap {"save", "refresh"} = {}
        /\ resp.res.body = TheOne(resp.pre.entry).body
        /\ (~resp.pre.rewrote => resp.res.body = TheOne(resp.pre.hit))

C2_Witness ==
    /\ ByWebHandler /\ resp.res.tag = "HIT" /\ resp.pre.hit # {}
    /\ resp.pre.rewrote
    /\ resp.res.body # TheOne(resp.pre.hit)

\* C3: a request that finds a cached entry older than the freshness window is
\* tagged SWR, its body is the stale entry's, no origin fetch is made on the
\* response path, and exactly one refresh is scheduled; no other request is
\* tagged SWR.
C3_StaleWhileRevalidate ==
    LET stale == /\ Cacheable /\ resp.pre.entry # {}
                 /\ ~InsideWindow(TheOne(resp.pre.entry), resp.pre.at)
    IN ByWebHandler =>
        /\ stale <=> resp.res.tag = "SWR"
        /\ stale => /\ resp.res.body = TheOne(resp.pre.entry).body
                    /\ "origin" \notin resp.fx
                    /\ CountKind("refresh") = 1
                    /\ CountKind("save") = 0

C3_Witness ==
    /\ ByWebHandler /\ resp.res.tag = "SWR"
    /\ resp.pre.entry # {} /\ resp.pre.at - TheOne(resp.pre.entry).age >= 3600000
    /\ CountKind("refresh") = 1

\* The request was answered by the mode handler of a storage mode
ByMirrorHandler == resp.by = "handleR2Storage"

R2Keys == {r2KeyOf(r.path) : r \in R2Requests}

\* C4 as stated: every bucket miss whose origin response has a content length
\* strictly between 0 and 100 MB, a mirrorable content type and no
\* no-store/private directive leads to the object being in the bucket under
\* the sanitized key, and nothing else is ever written to the bucket.
C4_EligibleMissMirrored ==
    /\ \A k \in R2Keys : (k \in hist.owedAny) ~> (k \in DOMAIN bucket)
    /\ [](\A k \in DOMAIN bucket : k \in hist.owedAny)

\* C4 as amended: every such miss whose origin response also has status 200
\* leads to the object being in the bucket under the sanitized key unless the
\* bucket write fails; the bucket only ever holds bodies of such responses,
\* under their sanitized keys.
C4_EligibleOkMissMirrored ==
    /\ \A k \in R2Keys :
          (\E b \in {"j1", "j2", "big", "gone"} : <<k, b>> \in hist.owed)
              ~> (k \in DOMAIN bucket \/ k \in hist.putFailed)
    /\ [](\A k \in DOMAIN bucket : <<k, bucket[k].body>> \in hist.owed)

C4_Witness ==
    /\ \E k \in DOMAIN bucket : <<k, bucket[k].body>> \in hist.owed
    /\ hist.owedAny # {k \in R2Keys : \E b \in {"j1", "j2", "big", "gone"} : <<k, b>> \in hist.owed}
    /\ hist.putFailed # {}

\* C5: a request that reaches the storage mirror handler with a path holding
\* ".." or "//" is answered 400, and no bucket get, bucket put or origin fetch
\* happens for it.
C5_RejectsDotsAndSlashes ==
    (ByMirrorHandler
       /\ (Includes(resp.req.path, "..") \/ Includes(resp.req.path, "//"))) =>
        /\ resp.res.status = 400
        /\ resp.fx \cap {"bget", "origin"} = {}
        /\ "mirror" \notin SchedKinds

\* The scenario's request and the origin's answer to it
ScenarioMiss ==
    /\ resp.by \notin {"none", "ws", "gate", "error"}
    /\ resp.req.cookie = "session=abc"
    /\ EndsWith(resp.req.path, ".jpg")
    /\ resp.pre.obj = {}
    /\ "origin" \in resp.fx
    /\ resp.res.status = 200 /\ resp.res.ctype = "image/jpeg"
    /\ resp.res.clen = JpegBytes /\ ~Includes(resp.res.cc, "no-store")

StorageMode == FeatureHandler(resp.cfg.mode) = "handleR2Storage"

\* C10 as stated: in mode STANDARD the scenario's request is tagged R2-MISS
\* and its mirror is scheduled.
C10_StandardIsMirrored ==
    (resp.cfg.mode = "STANDARD" /\ ScenarioMiss) =>
        /\ resp.res.tag = "R2-MISS"
        /\ CountKind("mirror") = 1

\* C10 as amended: in a storage mode with the bucket bound, the scenario's
\* request is tagged R2-MISS with the origin's body and schedules one mirror
\* task that will write the object; once the object is in the bucket, a
\* request without cookie to the same path is answered R2-HIT with the
\* bucket's body and without an origin fetch.
C10_StorageModeIsMirrored ==
    /\ (StorageMode /\ ScenarioMiss) =>
          /\ resp.res.tag = "R2-MISS"
          /\ CountKind("mirror") = 1
          /\ \A i \in 1..Len(resp.sched) :
                resp.sched[i].kind = "mirror" =>
                    /\ shouldMirror(resp.sched[i])
                    /\ resp.sched[i].key = r2KeyOf(resp.req.path)
                    /\ resp.sched[i].body = resp.res.body
    /\ (StorageMode /\ resp.by # "none" /\ resp.req.cookie = ""
          /\ EndsWith(resp.req.path, ".jpg") /\ resp.pre.obj # {}) =>
          /\ resp.res.stor = "R2-HIT"
          /\ resp.res.body = TheOne(resp.pre.obj).body
          /\ "origin" \notin resp.fx
    /\ \A k \in DOMAIN bucket : <<k, bucket[k].body>> \in hist.owed

C10_Witness ==
    /\ StorageMode /\ resp.req.cookie = "" /\ resp.res.stor = "R2-HIT"
    /\ resp.pre.obj # {} /\ resp.res.body = TheOne(resp.pre.obj).body
    /\ <<r2KeyOf(resp.req.path), resp.res.body>> \in hist.owed

\* The last request was a purge command that the worker answered
IsPurge == resp.by \notin {"none", "ws"} /\ resp.req.cmd = "PURGE"

\* The purge carried the configured secret
ValidToken == resp.req.token # "" /\ resp.req.token = resp.cfg.purge_secret

\* The entry the request found is still in the edge cache
EntryKept == resp.pre.entry # {} => UrlOf(resp.req) \in DOMAIN edge

\* C8 as stated: a purge with the valid token returns 200 (500 if the cache
\* delete itself fails), one with an invalid token returns 403 and deletes
\* nothing, whatever the prior state, the rate-limit counter included.
C8_PurgeWhateverState ==
    IsPurge =>
        /\ ValidToken => resp.res.status \in {200, 500}
        /\ ~ValidToken => resp.res.status = 403 /\ resp.del = {} /\ EntryKept

\* C8 as amended: a purge is answered by the gate; it is rejected 429 exactly
\* when the rate limiter read a counter at or above the threshold; otherwise
\* with the valid token it returns 200 and deletes the entry of its url (500
\* and nothing deleted when the delete fails), with an invalid or absent token
\* it returns 403; nothing is deleted unless it returns 200.
C8_PurgeAfterLimiter ==
    IsPurge =>
        /\ resp.by = "gate"
        /\ resp.res.status = 429 <=> resp.pre.count >= RateThreshold
        /\ (resp.res.status # 429 /\ ValidToken) =>
              \/ resp.res.status = 200 /\ resp.del = {UrlOf(resp.req)}
              \/ resp.res.status = 500 /\ "delete" \in resp.fx
        /\ (resp.res.status # 429 /\ ~ValidToken) => resp.res.status = 403
        /\ resp.res.status # 200 => resp.del = {} /\ EntryKept
        /\ "origin" \notin resp.fx

C8_Witness ==
    /\ IsPurge /\ ValidToken /\ resp.res.status = 200
    /\ resp.pre.entry # {} /\ resp.del = {UrlOf(resp.req)}
    /\ resp.pre.count = RateThreshold - 1

\* The admissions of the request's address that fall in the 60 seconds before it
AdmitsInWindow ==
    {i \in 1..Len(resp.pre.admits) : resp.pre.at - resp.pre.admits[i] < 60000}

Limited == resp.by \notin {"none", "ws"} /\ "rlGet" \in resp.fx

Rejected == resp.by = "gate" /\ resp.res.status = 429 /\ resp.res.retry = "60"

\* C9 as stated: once T requests of an address have been admitted within 60
\* seconds, the next one within the window (whose counter read succeeds) is
\* rejected with 429 and Retry-After: 60.
C9_AtMostThreshold ==
    (Limited /\ "rlGet" \notin resp.ext
       /\ Cardinality(AdmitsInWindow) >= RateThreshold) => Rejected

\* C9 as amended: a request is rejected with 429 and Retry-After: 60 exactly
\* when the counter it reads is at or above T; and when every earlier
\* admission's increment was written before the next request of the address
\* read the counter, and no counter read or write failed, a request that
\* follows T admissions within 60 seconds is rejected.
C9_ThresholdWhenCounted ==
    /\ (Limited /\ "rlGet" \notin resp.ext) =>
          (Rejected <=> resp.pre.count >= RateThreshold)
    /\ resp.by # "none" /\ resp.res.status = 429 => Rejected /\ resp.sched = <<>>
    /\ (Limited /\ ~resp.pre.inexact /\ Cardinality(AdmitsInWindow) >= RateThreshold)
          => Rejected

C9_Witness ==
    /\ Limited /\ ~resp.pre.inexact /\ Cardinality(AdmitsInWindow) = RateThreshold
    /\ Rejected
    /\ resp.pre.at > 0

\* The last request ran the semantic cache lookup as far as the index query
Looked == resp.by = "handleAIGateway" /\ "vquery" \in resp.fx

SemanticHit == resp.res.aic = "SEMANTIC-HIT"

\* C6: the lookup answers with a semantic hit only when the nearest
\* neighbour scores at or above the threshold and its payload is in the
\* key-value store, and then with that payload; when the neighbour passes
\* the threshold but its payload is absent the request is a miss that goes
\* on to the upstream gateway, no error is returned and the vector stays in
\* the index.
C6_HitNeedsScoreAndPayload ==
    /\ (resp.by # "none" /\ SemanticHit) =>
          /\ Looked /\ resp.pre.near # {}
          /\ \A n \in resp.pre.near :
                /\ n.score >= semThreshold(resp.cfg)
                /\ n.payload # {}
                /\ resp.res.body = TheOne(n.payload)
                /\ resp.res.score = n.score
          /\ resp.res.status = 200 /\ "upstream" \notin resp.fx
    /\ Looked =>
          \A n \in resp.pre.near :
              /\ (n.score < semThreshold(resp.cfg) \/ n.payload = {}) =>
                    /\ ~SemanticHit
                    /\ "upstream" \in resp.fx
                    /\ resp.res.status # 500
              /\ n.id \in DOMAIN vecs

C6_Witness ==
    /\ Looked /\ ~SemanticHit /\ "upstream" \in resp.fx
    /\ \E n \in resp.pre.near : n.score >= semThreshold(resp.cfg) /\ n.payload = {}

\* C7: a lookup that immediately follows a completed semantic cache store
\* and carries the stored prompt is a semantic hit with score 1.0 whose body
\* is the stored payload, whatever the index held before.
C7_StoreThenLookupHits ==
    (Looked /\ resp.pre.stored # {}
       /\ \A st \in resp.pre.stored :
             st.prompt = extractPromptForEmbedding(resp.req.body)) =>
        /\ SemanticHit
        /\ resp.res.score = 100
        /\ \A st \in resp.pre.stored : resp.res.body = st.text

\* The prompt of the last request and of the store that has just completed
PromptOf(body) == safePromptOf(extractPromptForEmbedding(body))

\* The store the last request followed held a prompt that scores 0.95
\* against the request's, and its vector is the only one in the index
AfterParaphraseStored ==
    /\ Looked /\ resp.pre.stored # {}
    /\ Cardinality(DOMAIN vecs) = 1
    /\ \A st \in resp.pre.stored :
          Cosine(generateEmbedding(PromptOf(resp.req.body)),
                 generateEmbedding(safePromptOf(st.prompt))) = 95

\* C11: in mode AI_INFERENCE with the semantic cache on and threshold 0.92, a
\* POST to a chat-completions path that finds the index empty is a miss, goes
\* to the upstream gateway under the provider detected from the path, and a
\* successful answer is handed to one deferred store with the request's body;
\* a POST that follows the completed store and whose prompt scores 0.95
\* against the stored one is answered SEMANTIC-HIT with the stored payload
\* and makes no upstream call.
C11_MissStoreThenParaphraseHits ==
    /\ (Looked /\ DOMAIN vecs = {}) =>
          /\ ~SemanticHit
          /\ "upstream" \in resp.fx
          /\ resp.res.prov = "openai"
          /\ resp.res.status \in 200..299 =>
                /\ CountKind("semstore") = 1
                /\ \A i \in 1..Len(resp.sched) :
                      resp.sched[i].kind = "semstore" =>
                          /\ resp.sched[i].rbody = resp.req.body
                          /\ resp.sched[i].body = resp.res.body
          /\ resp.res.status \notin 200..299 => CountKind("semstore") = 0
    /\ AfterParaphraseStored =>
          /\ SemanticHit
          /\ resp.res.status = 200
          /\ resp.res.score = 95
          /\ "upstream" \notin resp.fx
          /\ CountKind("semstore") = 0
          /\ \A st \in resp.pre.stored : resp.res.body = st.text

C11_Witness ==
    /\ AfterParaphraseStored /\ SemanticHit /\ resp.res.score = 95
    /\ "upstream" \notin resp.fx
    /\ \A st \in resp.pre.stored :
          st.prompt # extractPromptForEmbedding(resp.req.body)

\* The worker answered the last request
Answered == resp.by # "none"

Handlers == {"handleWebTraffic", "handleR2Storage", "handleAIGateway"}

\* The query of the last request holds a % that starts no escape
StrayPercent == Answered /\ resp.by # "ws" /\ Includes(resp.req.search, "%zz")

ShieldError == resp.by = "error" /\ resp.res.status = 500
               /\ resp.res.body = "Shield Error"

\* C12: every request is answered with one response, whichever external call
\* fails and whatever its query string: a failed config read, counter read,
\* bucket get, embedding or index query is absorbed and the request goes on;
\* a failed origin fetch or upstream call is answered 502 by the handler, a
\* failed cache delete 500 by the purge rule; a failed cache match and a
\* query that cannot be decoded end in the dispatcher's generic 500; and no
\* request is left without an answer.
C12_AlwaysAnswered ==
    /\ Answered =>
          /\ resp.by \in Handlers \cup {"ws", "gate", "error"}
          /\ resp.res.status \in 100..599
          /\ resp.by = "error" => ShieldError
          /\ "config" \in resp.ext => resp.by \in Handlers
          /\ "rlGet" \in resp.ext => resp.by \in Handlers /\ resp.res.status # 429
          /\ ("cacheMatch" \in resp.ext /\ Cacheable) => ShieldError
          /\ ("cacheDelete" \in resp.ext /\ IsPurge /\ ValidToken) =>
                resp.by = "gate" /\ resp.res.status = 500 /\ resp.del = {}
          /\ ("origin" \in resp.ext /\ "origin" \in resp.fx) =>
                resp.by \in Handlers \cup {"ws"} /\ resp.res.status = 502
          /\ "bucketGet" \in resp.ext =>
                resp.by = "handleR2Storage" /\ resp.res.tag = "R2-MISS"
                /\ "origin" \in resp.fx /\ resp.res.status = 200
          /\ resp.ext \cap {"embed", "vquery"} # {} =>
                resp.by = "handleAIGateway" /\ "upstream" \in resp.fx
                /\ resp.res.status = 200
          /\ "upstream" \in resp.ext =>
                resp.by = "handleAIGateway"
                /\ (SemanticHit \/ resp.res.status = 502)
          /\ StrayPercent => ShieldError
    /\ \A c \in FaultCalls(TheOne(cfgStore).mode) :
          tasks = EmptyBag => ENABLED Fetch(c[1], c[2])

C12_Witness ==
    /\ ShieldError /\ "cacheMatch" \in resp.ext /\ "match" \in resp.fx
    /\ resp.pre.entry # {}

\* The static table of the dispatcher, as the specification gives it
TableHandler(mode) ==
    CASE mode \in {"STANDARD", "SAAS", "API", "REALTIME"} -> "handleWebTraffic"
      [] mode \in {"ECOMMERCE", "IOT", "NEWS", "STORAGE_MIGRATION"} -> "handleR2Storage"
      [] mode = "AI_INFERENCE" -> "handleAIGateway"
      [] OTHER -> "handleWebTraffic"

\* The response and the deferred work are those of one run of a handler
WebEvidence ==
    /\ resp.res.tag \in {"HIT", "SWR", "MISS", "BYPASS"}
    /\ resp.res.stor = "" /\ resp.res.prov = ""
    /\ CountKind("save") + CountKind("refresh") <= 1
    /\ SchedKinds \subseteq {"save", "refresh"}

MirrorEvidence ==
    IF isStaticPath(resp.req.path)
    THEN \/ resp.res.stor = "R2-HIT" /\ resp.res.tag = ""
            /\ CountKind("r2save") = 1 /\ SchedKinds = {"r2save"}
         \/ resp.res.tag = "R2-MISS" /\ resp.res.stor = ""
            /\ CountKind("mirror") <= 1 /\ SchedKinds \subseteq {"mirror"}
    ELSE WebEvidence

RouterEvidence ==
    IF detectProviderFromPath(resp.req.path) # "unknown"
    THEN /\ resp.res.prov = detectProviderFromPath(resp.req.path)
         /\ CountKind("semstore") <= 1 /\ CountKind("analytics") <= 1
         /\ SchedKinds \subseteq {"semstore", "analytics"}
    ELSE WebEvidence

C14_HandlerResponsesFortified ==
    resp.by \in Handlers =>
        /\ {"strict-transport-security", "x-content-type-options",
            "x-frame-options", "referrer-policy"} \subseteq resp.res.hdrs
        /\ resp.res.ver = "2.7.0"
        /\ resp.res.cid = "acme"
        /\ resp.res.hdrs \cap {"server", "x-powered-by", "x-aspnet-version",
                                "x-runtime", "x-vignette", "via",
                                "x-origin-server"} = {}

C14_Witness ==
    /\ resp.by = "handleAIGateway" /\ SemanticHit
    /\ resp.res.ver = "2.7.0" /\ "referrer-policy" \in resp.res.hdrs

\* The rules of the gate that the last request matches
PreflightMatches ==
    /\ resp.req.method = "OPTIONS"
    /\ resp.cfg.mode \in {"API", "AI_INFERENCE"} \/ Includes(resp.req.path, "/api")

GeoMatches == resp.req.country \in resp.cfg.blocked_countries

LimitMatches == resp.cfg.rate_limit_enabled /\ resp.pre.count >= RateThreshold

PurgeMatches == resp.req.cmd = "PURGE"

PatternMatches == Includes(resp.req.search, "%3Cscript%3E")

ByGate(status) == resp.by = "gate" /\ resp.res.status = status

Untouched == resp.sched = <<>> /\ resp.del = {} /\ EntryKept

\* C15: the gate answers with the earliest rule the request matches, in the
\* order preflight (204), geo-block (451), rate limit (429), purge
\* (200/403/500), pattern filter (403), and no later rule takes effect: a
\* preflight or geo-blocked request reads no counter, and neither it nor a
\* rate-limited request increments the counter or deletes anything, whatever
\* purge token it carries; a request that matches no rule reaches its handler.
C15_EarliestRuleAnswers ==
    resp.by \notin {"none", "ws"} =>
        IF PreflightMatches THEN ByGate(204) /\ resp.fx = {} /\ Untouched
        ELSE IF GeoMatches THEN ByGate(451) /\ resp.fx = {} /\ Untouched
        ELSE IF LimitMatches THEN ByGate(429) /\ resp.fx = {"rlGet"} /\ Untouched
        ELSE IF PurgeMatches
        THEN /\ resp.by = "gate" /\ resp.res.status \in {200, 403, 500}
             /\ ValidToken => resp.res.status = 200 /\ resp.del = {UrlOf(resp.req)}
             /\ CountKind("rlinc") = 1
        ELSE IF PatternMatches
        THEN ByGate(403) /\ resp.del = {} /\ EntryKept /\ CountKind("rlinc") = 1
        ELSE resp.by \in Handlers /\ CountKind("rlinc") = 1

C15_Witness ==
    /\ ~PreflightMatches /\ GeoMatches /\ LimitMatches /\ PurgeMatches /\ ValidToken
    /\ ByGate(451) /\ resp.pre.entry # {} /\ UrlOf(resp.req) \in DOMAIN edge

\* The request carries a cookie or an Authorization header the handler
\* takes for credentials
Credentialed ==
    \/ TestAnyI(resp.req.cookie,
                {"session", "cart", "logged_in", "auth_token", "user_id", "sess"})
    \/ TestAnyI(resp.req.auth, {"bearer", "basic", "token", "oauth"})

NoCacheAsked == Includes(resp.req.cc, "no-cache") \/ resp.req.pragma = "no-cache"

AggressiveMode == resp.cfg.mode \in {"ECOMMERCE", "STANDARD", "IOT"}

CacheableAsSpecified ==
    /\ resp.cfg.mode \notin {"API", "REALTIME"}
    /\ ~Includes(resp.req.path, "/api/") /\ ~Includes(resp.req.path, "/checkout/")
    /\ ~Credentialed
    /\ AggressiveMode \/ ~NoCacheAsked

\* C16: for a request that is not a write, the web traffic handler consults
\* the edge cache exactly when the mode is not API or REALTIME, the path has
\* no /api/ or /checkout/ segment, the request carries no credentials, and
\* the mode is aggressive or the request asks for no no-cache; otherwise it
\* goes to the origin, is tagged BYPASS and stores nothing. A request with
\* credentials, of any method, is never answered from the cache and never
\* stored.
C16_CacheableExactlyWhen ==
    ByWebHandler =>
        /\ resp.req.method \notin {"POST", "PUT", "DELETE", "PATCH"} =>
              /\ "match" \in resp.fx <=> CacheableAsSpecified
              /\ ~CacheableAsSpecified =>
                    /\ resp.res.tag = "BYPASS" /\ "origin" \in resp.fx
                    /\ resp.sched = <<>>
        /\ Credentialed =>
              /\ resp.res.tag = "BYPASS" /\ "match" \notin resp.fx
              /\ "origin" \in resp.fx /\ resp.sched = <<>>

C16_Witness ==
    /\ ByWebHandler /\ resp.cfg.mode = "SAAS" /\ resp.req.pragma = "no-cache"
    /\ resp.pre.entry # {} /\ resp.res.tag = "BYPASS" /\ "origin" \in resp.fx

\* The handler went to the origin for the last request
OnMiss == ByWebHandler /\ "origin" \in resp.fx

Storable == Cacheable /\ (~Includes(resp.res.cc, "no-store") \/ AggressiveMode)

\* C17 as stated: on a miss the response is tagged MISS and one store of the
\* origin response is scheduled exactly when the request is cacheable and
\* the origin sent no no-store or the mode is aggressive; otherwise it is
\* tagged BYPASS and nothing is stored.
C17_MissAndStoreTogether ==
    OnMiss =>
        /\ Storable => resp.res.tag = "MISS" /\ CountKind("save") = 1
        /\ ~Storable => resp.res.tag = "BYPASS" /\ CountKind("save") = 0

\* C17 as amended: on a miss the response is tagged MISS exactly when the
\* request is cacheable and the origin sent no no-store or the mode is
\* aggressive, and BYPASS otherwise; one store of the origin response, under
\* the request's url and the configured ttl, is scheduled exactly when the
\* tag is MISS and the origin's status is 200.
C17_StoreOnlyOkMiss ==
    OnMiss =>
        /\ Storable => resp.res.tag = "MISS"
        /\ ~Storable => resp.res.tag = "BYPASS"
        /\ CountKind("save") =
              (IF resp.res.tag = "MISS" /\ resp.res.status = 200 THEN 1 ELSE 0)
        /\ Len(resp.sched) = CountKind("save")
        /\ \A i \in 1..Len(resp.sched) :
              /\ resp.sched[i].key = UrlOf(resp.req)
              /\ resp.sched[i].body = resp.res.body
              /\ resp.sched[i].ttl = 3600

C17_Witness ==
    /\ OnMiss /\ resp.res.tag = "MISS" /\ resp.res.status = 404
    /\ resp.sched = <<>>

\* ---------------------------------------------------------------------------
\* The config cache of a warm instance: calls of loadConfig interleave at the
\* store read while the deploy tool rewrites the client's config
\* ---------------------------------------------------------------------------

StoredFull == [Config0 EXCEPT !.mode = "SAAS", !.cache_ttl = 120]

\* A stored config that names neither a mode nor a cache_ttl
StoredPartial == [Config0 EXCEPT !.purge_secret = "s3cret"]

ConfigEnvs == {Env0, [Env0 EXCEPT !.CLOUDEDGING_CONFIG = FALSE]}

ConfigStores == {{}, Some(StoredFull)}

ConfigWrites == {StoredFull, StoredPartial}

ConfigExts == {Ext0, [Ext0 EXCEPT !.fail = {"config"}]}

ConfigInit == DeployedWith(ConfigEnvs, ConfigStores)

ConfigNext ==
    \/ \E p \in 1..MaxLoads : LoadStart(p)
    \/ \E p \in 1..MaxLoads, o \in ConfigExts : LoadRead(p, o)
    \/ \E p \in 1..MaxLoads : LoadEnd(p)
    \/ \E c \in ConfigWrites : WriteConfig(c)
    \/ Tick(HalfMinuteMs)

SpecConfig == ConfigInit /\ [][ConfigNext]_vars

Loaded == hist.load # {}

LastLoad == TheOne(hist.load)

\* The load whose result the last call returned
LastSource == TheOne(LastLoad.src)

HardDefault == [Config0 EXCEPT !.mode = "STANDARD", !.cache_ttl = 3600]

\* The stored fields over the default's two
OverDefault(s) ==
    [s EXCEPT !.mode = IF s.mode = "" THEN "STANDARD" ELSE s.mode,
              !.cache_ttl = IF s.cache_ttl = 0 THEN 3600 ELSE s.cache_ttl]

ReturnedAsSpecified ==
    Loaded =>
        /\ LastLoad.config.mode # ""
        /\ LastLoad.config.cache_ttl > 0
        /\ LastLoad.fromCache <=>
               (LastLoad.had /\ LastLoad.at - LastLoad.last < 60000)
        /\ IF ~env.CLOUDEDGING_CONFIG \/ LastSource.failed \/ LastSource.got = {}
           THEN LastLoad.config = HardDefault
           ELSE LastLoad.config = OverDefault(TheOne(LastSource.got))

CacheReturnReadsNothing ==
    (hist'.load # hist.load /\ TheOne(hist'.load).fromCache)
        => (loads' = loads /\ cachedConfig' = cachedConfig
            /\ lastConfigFetch' = lastConfigFetch)

CacheBounded ==
    /\ cachedConfig # {} =>
           (hist.cfgAt # {} /\ lastConfigFetch = TheOne(hist.cfgAt).start)
    /\ (Loaded /\ LastLoad.fromCache) =>
           /\ LastLoad.at - LastSource.start < 60000
           /\ LastSource.start <= LastSource.readAt
           /\ LastSource.readAt <= LastLoad.at

\* The returned config is the i-th write's or a later one's
Reflects(i) ==
    /\ LastSource.ver >= i
    /\ LastLoad.config = OverDefault(hist.writes[LastSource.ver].cfg)

\* C19 as stated: a cached return is of a load started less than 60 seconds
\* earlier, and in a worker bound to the store every call that starts more
\* than 60 seconds plus one load latency after a write returns the written
\* config (or a later one).
C19_ChangeAlwaysUsed ==
    /\ CacheBounded
    /\ (Loaded /\ env.CLOUDEDGING_CONFIG) =>
           \A i \in 1..Len(hist.writes) :
               LastLoad.at > hist.writes[i].at + 60000
                                 + (LastSource.doneAt - LastSource.start)
                   => Reflects(i)

\* C19: under every interleaving a cached return is of a load that started
\* less than 60 seconds earlier; in a worker bound to the store a call that
\* starts more than 60 seconds after a write returns the written config (or a
\* later one) when the store read behind its config succeeded, and the
\* hard-coded default when that read threw.
C19_StalenessBounded ==
    /\ CacheBounded
    /\ (Loaded /\ env.CLOUDEDGING_CONFIG) =>
           \A i \in 1..Len(hist.writes) :
               LastLoad.at > hist.writes[i].at + 60000 =>
                   IF ~LastSource.failed
                   THEN Reflects(i)
                   ELSE LastLoad.config = HardDefault

\* A call that started more than 60 seconds after a write was answered from
\* the cache, with the written config
C19_Witness ==
    /\ Loaded
    /\ env.CLOUDEDGING_CONFIG
    /\ ~LastSource.failed
    /\ LastLoad.fromCache
    /\ Len(hist.writes) >= 1
    /\ LastLoad.at > hist.writes[1].at + 60000
    /\ LastSource.ver >= 1
    /\ LastLoad.config = OverDefault(hist.writes[LastSource.ver].cfg)

\* A slow load that read before the write finished after a fast one that read
\* after it: the cache went back to the older config
OlderOverwroteNewer ==
    /\ Loaded
    /\ LastLoad.fromCache
    /\ LastSource.ver < Len(hist.writes)
    /\ LastSource.doneAt > hist.writes[Len(hist.writes)].at

\* ---------------------------------------------------------------------------
\* The storage mirror with its bucket unbound or failing
\* ---------------------------------------------------------------------------

FailOpenEnvs == {Env0, [Env0 EXCEPT !.STORAGE_BUCKET = FALSE]}

FailOpenConfigs == {[Config0 EXCEPT !.mode = m] : m \in {"ECOMMERCE", "IOT"}}

FailOpenRequests == {ImageRequest, PageRequest}

FailOpenExts == {JpegExt, Failing("bucketGet"), OriginDown}

FailOpenInit == DeployedWith(FailOpenEnvs, {Some(c) : c \in FailOpenConfigs})

FailOpenNext ==
    \/ \E r \in FailOpenRequests, o \in FailOpenExts : Fetch(r, o)
    \/ \E t \in BagToSet(tasks) : RunSave(t, JpegExt)
    \/ \E t \in BagToSet(tasks) : RunMirror(t, JpegExt)
    \/ \E t \in BagToSet(tasks) : RunR2Save(t, JpegExt)

SpecFailOpen == FailOpenInit /\ [][FailOpenNext]_vars

\* The last request went to the storage mirror handler
Mirrored == resp.by \in {"handleR2Storage", "error"} /\ resp.cfg.mode \in {"ECOMMERCE", "IOT"}

StaticRequested == resp.req.path = "/img/a.jpg"

\* The response and the tasks are the web traffic handler's, and the bucket
\* was not asked
WebHandled ==
    /\ resp.by = "handleR2Storage"
    /\ resp.res.stor = ""
    /\ resp.res.tag \in {"HIT", "SWR", "MISS", "BYPASS"}
    /\ "bget" \notin resp.fx
    /\ \A i \in 1..Len(resp.sched) : resp.sched[i].kind \in {"save", "refresh"}
    /\ resp.pre.entry # {} => resp.res.tag \in {"HIT", "SWR"}
    /\ resp.pre.entry = {} => "origin" \in resp.fx

\* The response is the origin's (502 when the origin is down), tagged R2-MISS
FellThroughToOrigin ==
    /\ resp.by = "handleR2Storage"
    /\ resp.res.tag = "R2-MISS"
    /\ resp.res.stor = ""
    /\ "origin" \in resp.fx
    /\ resp.res.status = IF "origin" \in resp.ext THEN 502 ELSE 200
    /\ "origin" \notin resp.ext => resp.res.body = "j1"

\* C20: the storage mirror handler fails open: a request without a static
\* extension, or one that arrives while the bucket is unbound, is handled by
\* the web traffic handler with no bucket access; a bucket get that throws
\* does not fail the request, which falls through to the origin fetch and is
\* tagged R2-MISS.
C20_MirrorFailsOpen ==
    Mirrored =>
        /\ (~StaticRequested \/ ~env.STORAGE_BUCKET) => WebHandled
        /\ (StaticRequested /\ env.STORAGE_BUCKET /\ "bucketGet" \in resp.ext)
               => FellThroughToOrigin
        /\ ~env.STORAGE_BUCKET => bucket = <<>>

\* The bucket held the object, its get threw, and the request was answered
\* from the origin
C20_Witness ==
    /\ Mirrored
    /\ StaticRequested
    /\ resp.pre.obj # {}
    /\ "bucketGet" \in resp.ext
    /\ resp.res.tag = "R2-MISS"
    /\ resp.res.status = 200

\* An image request in a worker without the bucket was answered from the edge
\* cache by the web traffic handler
UnboundServedFromEdge ==
    /\ Mirrored /\ StaticRequested /\ ~env.STORAGE_BUCKET
    /\ resp.res.tag = "HIT"

\* ---------------------------------------------------------------------------
\* The storage mirror's miss and hit paths
\* ---------------------------------------------------------------------------

\* The last request asked the bound bucket for a valid key it did not hold
BucketMissed ==
    /\ ByMirrorHandler
    /\ EndsWith(resp.req.path, ".jpg")
    /\ ~Includes(resp.req.path, "..")
    /\ ~Includes(SubSeq(resp.req.path, 2, Len(resp.req.path)), "//")
    /\ resp.pre.obj = {}

\* The response is the response of one of the origins, tagged R2-MISS
OriginRelayed ==
    \E o \in R2Exts :
        /\ o.fail = resp.ext
        /\ resp.res.tag = "R2-MISS"
        /\ resp.res.stor = ""
        /\ resp.res.status = o.origin.status
        /\ resp.res.body = o.origin.body
        /\ resp.res.ctype = o.origin.ctype
        /\ resp.res.clen = o.origin.clen
        /\ resp.res.cc = o.origin.cc
        /\ CountKind("mirror") = (IF o.origin.status = 200 THEN 1 ELSE 0)
        /\ CountKind("r2save") = 0

\* A step that settles a mirror task
MirrorSettles ==
    \E t \in BagToSet(tasks) : t.kind = "mirror" /\ tasks' = tasks (-) SetToBag({t})

\* It leaves the response and everything a later request reads alone, except
\* that it may put its own object into the bucket; a put that failed puts nothing
MirrorTouchesBucketOnly ==
    MirrorSettles =>
        /\ resp' = resp
        /\ edge' = edge /\ rl' = rl /\ kv' = kv /\ vecs' = vecs
        /\ cachedConfig' = cachedConfig /\ lastConfigFetch' = lastConfigFetch
        /\ \/ bucket' = bucket
           \/ \E t \in BagToSet(tasks) :
                 /\ t.kind = "mirror"
                 /\ hist'.putFailed = hist.putFailed
                 /\ bucket' = [k \in DOMAIN bucket \cup {t.key} |->
                                  IF k = t.key THEN [body |-> t.body, ctype |-> t.ctype]
                                  ELSE bucket[k]]

\* C21: on a bucket miss the caller gets the origin response tagged R2-MISS,
\* whether an earlier mirror write of the key failed or not and before the
\* mirror task has run; the mirror task changes neither the response nor
\* anything a later request reads except the bucket, and a failed write
\* leaves the bucket as it was.
C21_MissRelaysOrigin ==
    [](BucketMissed => OriginRelayed) /\ [][MirrorTouchesBucketOnly]_vars

\* A mirror write of the key failed, the bucket is still without the object,
\* and the next request for it was answered from the origin again
C21_Witness ==
    /\ BucketMissed
    /\ resp.pre.failedPut
    /\ resp.res.tag = "R2-MISS"
    /\ resp.res.status = 200
    /\ r2KeyOf(resp.req.path) \notin DOMAIN bucket

\* The last request asked the bound bucket for a valid key that it held
BucketHeld ==
    /\ ByMirrorHandler
    /\ EndsWith(resp.req.path, ".jpg")
    /\ ~Includes(resp.req.path, "..")
    /\ ~Includes(SubSeq(resp.req.path, 2, Len(resp.req.path)), "//")
    /\ resp.pre.obj # {}
    /\ "bucketGet" \notin resp.ext

\* The object served, tagged R2-HIT and immutable, with one deferred write of
\* it into the edge cache
ServedFromBucket ==
    /\ resp.res.stor = "R2-HIT"
    /\ resp.res.body = TheOne(resp.pre.obj).body
    /\ resp.res.cc = "public, max-age=31536000, immutable"
    /\ CountKind("r2save") = 1
    /\ Len(resp.sched) = 1
    /\ resp.sched[1].key = UrlOf(resp.req)
    /\ resp.sched[1].body = resp.res.body
    /\ resp.sched[1].ttl = 604800

\* What the handler does on every bucket hit, with or without an edge entry
HitAlwaysAsksBucket == BucketHeld => (ServedFromBucket /\ "bget" \in resp.fx)

\* C22: on a bucket hit the object is served tagged R2-HIT with immutable
\* cache directives and exactly one deferred edge-cache write is scheduled;
\* once the edge cache holds the written entry, an identical request is
\* served without another bucket get.
C22_EdgeEntrySparesBucket ==
    BucketHeld =>
        IF resp.pre.entry = {} THEN ServedFromBucket
        ELSE "bget" \notin resp.fx

\* The edge cache held the entry written after an earlier hit, and the
\* identical request went to the bucket again
BucketAskedDespiteEntry ==
    /\ BucketHeld
    /\ resp.pre.entry # {}
    /\ TheOne(resp.pre.entry).body = TheOne(resp.pre.obj).body
    /\ "bget" \in resp.fx
    /\ resp.res.stor = "R2-HIT"

\* ---------------------------------------------------------------------------
\* The LLM router's entry: configuration, provider detection, validation
\* ---------------------------------------------------------------------------

SmallCap == 1000

RouterConfigs ==
    {[Config0 EXCEPT !.mode = "AI_INFERENCE", !.ai_gateway_id = "gw"],
     [Config0 EXCEPT !.mode = "AI_INFERENCE", !.ai_gateway_id = "gw",
                     !.ai_max_request_size = SmallCap],
     [Config0 EXCEPT !.mode = "AI_INFERENCE"]}

RouterEnvs == {Env0, [Env0 EXCEPT !.ACCOUNT_ID = ""]}

\* Chat completions under every method, content type and declared length
ValidationRequests ==
    {[ChatRequest EXCEPT !.method = m, !.ctype = ct, !.clen = n] :
        m \in {"POST", "GET", "PUT", "PATCH", "DELETE", "HEAD"},
        ct \in {"application/json", "text/plain", ""},
        n \in {100, 2 * SmallCap, 20000000}}

\* A path no provider signature matches, alone and with an X-Provider header
OverrideRequest ==
    [ChatRequest EXCEPT !.path = "/page", !.xprov = "anthropic"]

RouterRequests == ValidationRequests \cup {PageRequest, OverrideRequest}

RouterInit == DeployedWith(RouterEnvs, {Some(c) : c \in RouterConfigs})

RouterNext ==
    \/ \E r \in RouterRequests : Fetch(r, Ext0)
    \/ \E t \in BagToSet(tasks) : RunSave(t, Ext0)
    \/ \E t \in BagToSet(tasks) : RunSemStore(t, Ext0)
    \/ \E t \in BagToSet(tasks) : RunAnalytics(t)

SpecRouter == RouterInit /\ [][RouterNext]_vars

\* The last request reached the router, which is configured
RouterConfigured ==
    /\ resp.by = "handleAIGateway"
    /\ resp.cfg.ai_gateway_id # ""
    /\ env.ACCOUNT_ID # ""

\* A provider is named by the header or by the path
ProviderDetected ==
    resp.req.xprov # "" \/ resp.req.path = "/v1/chat/completions"

\* No embedding, vector query, key-value read or upstream call, and nothing deferred
NoRouterCalls ==
    /\ resp.fx \cap {"embed", "vquery", "kvGet", "upstream", "origin", "match"} = {}
    /\ resp.sched = <<>>

RejectedWith(status) == resp.res.status = status /\ NoRouterCalls

\* C23: a request that reaches the configured router with a detected provider
\* is answered 405 with an Allow header when its method is not POST, GET, PUT
\* or PATCH; otherwise 400 when it is a POST, PUT or PATCH without a JSON
\* content type; otherwise 413 when its declared content length is above the
\* cap; each rejection makes no embedding, vector query, key-value read or
\* upstream call. Any other request goes on to the cache lookup or upstream.
C23_ValidationInOrder ==
    (RouterConfigured /\ ProviderDetected) =>
        LET m == resp.req.method
            cap == IF resp.cfg.ai_max_request_size = 0 THEN 10485760
                   ELSE resp.cfg.ai_max_request_size
        IN IF m \notin {"POST", "GET", "PUT", "PATCH"}
           THEN RejectedWith(405) /\ "allow" \in resp.res.hdrs
           ELSE IF m \in {"POST", "PUT", "PATCH"}
                   /\ resp.req.ctype # "application/json"
           THEN RejectedWith(400)
           ELSE IF resp.req.clen > cap
           THEN RejectedWith(413)
           ELSE /\ resp.res.status = 200
                /\ "upstream" \in resp.fx \/ resp.res.aic = "SEMANTIC-HIT"

\* A PUT with the wrong content type and a length above the cap is rejected
\* for its content type
C23_Witness ==
    /\ RouterConfigured
    /\ resp.req.method = "PUT"
    /\ resp.req.ctype = "text/plain"
    /\ resp.req.clen = 2 * SmallCap
    /\ resp.cfg.ai_max_request_size = SmallCap
    /\ RejectedWith(400)

\* The response is the web traffic handler's
FromWebHandler ==
    /\ resp.res.tag \in {"HIT", "SWR", "MISS", "BYPASS"}
    /\ resp.res.status = 200
    /\ resp.res.prov = ""

ConfigError ==
    /\ resp.res.status = 500
    /\ resp.res.body \in {"AI Gateway not configured", "ACCOUNT_ID missing"}

\* What the router does: the configuration is checked before the provider
RouterChecksConfigFirst ==
    resp.by = "handleAIGateway" =>
        /\ (resp.cfg.ai_gateway_id = "" \/ env.ACCOUNT_ID = "") => ConfigError
        /\ (RouterConfigured /\ ~ProviderDetected) => FromWebHandler

\* C24: in mode AI_INFERENCE a request whose path matches no provider
\* signature and that carries no provider override gets the web traffic
\* handler's response whatever the gateway configuration, and a missing
\* gateway id or account identity gives 500 only to requests that would be
\* routed to a provider.
C24_UnknownShapeFallsThrough ==
    resp.by = "handleAIGateway" =>
        /\ ~ProviderDetected => FromWebHandler
        /\ ConfigError => ProviderDetected

\* A page request in a deployment without a gateway id was answered 500
PageFailedOnConfig ==
    /\ resp.by = "handleAIGateway"
    /\ resp.req.path = "/page" /\ resp.req.xprov = ""
    /\ ConfigError

\* ---------------------------------------------------------------------------
\* The semantic cache lookup under failing steps
\* ---------------------------------------------------------------------------

AdvisoryEnvs == {Env0, [Env0 EXCEPT !.CLOUDEDGING_CACHE = FALSE]}

\* A POST whose body is the first prompt as plain text, not JSON
RawRequest ==
    [ChatRequest EXCEPT !.body = [fmt |-> "invalid", msgs |-> <<>>,
                                  text |-> "Summarize TLA+ for me", model |-> ""]]

\* The upstream rejects a body that is not JSON
BadJsonExt ==
    [Ext0 EXCEPT !.upstream.status = 400, !.upstream.body = "invalid json"]

AdvisoryCalls ==
    ({ChatRequest, Chat("Summarize TLA+ in brief")}
        \X {[Ext0 EXCEPT !.fail = F] : F \in {{}, {"embed"}, {"vquery"}, {"kvGet"}}})
    \cup ({RawRequest} \X {BadJsonExt, [BadJsonExt EXCEPT !.fail = {"vquery"}]})

AdvisoryInit == DeployedWith({Env0}, {Some(c) : c \in ChatConfigs})

AdvisoryNext ==
    \/ \E c \in AdvisoryCalls : Fetch(c[1], c[2])
    \/ \E t \in BagToSet(tasks) : RunSemStore(t, Ext0)
    \/ \E t \in BagToSet(tasks) : RunAnalytics(t)
    \/ \E e \in AdvisoryEnvs : Redeploy(e)

SpecAdvisory == AdvisoryInit /\ [][AdvisoryNext]_vars

\* The embedding, the vector query or the key-value read of the last lookup threw
LookupThrew ==
    \/ "embed" \in resp.ext
    \/ "vquery" \in resp.ext
    \/ "kvGet" \in resp.fx /\ ("kvGet" \in resp.ext \/ ~env.CLOUDEDGING_CACHE)

BodyUnparsed == resp.req.body.fmt = "invalid"

\* The request went upstream once with the body it came with, and the
\* upstream's answer was relayed
ForwardedOnce ==
    /\ resp.by = "handleAIGateway"
    /\ resp.fwd = <<resp.req.body>>
    /\ resp.res.aic = ""
    /\ resp.res.status = (IF BodyUnparsed THEN 400 ELSE 200)
    /\ resp.res.body = (IF BodyUnparsed THEN "invalid json" ELSE "r1")

ServedFromSemanticCache ==
    /\ resp.by = "handleAIGateway"
    /\ resp.fwd = <<>>
    /\ resp.res.aic = "SEMANTIC-HIT"
    /\ resp.res.status = 200

Posted == resp.by \in {"handleAIGateway", "error"} /\ resp.req.method = "POST"

\* C25 as stated: when the body does not parse or the embedding, the vector
\* query or the key-value read fails (the missing binding included), the
\* request is not failed and is forwarded upstream exactly once with its
\* original body.
C25_AnyFailureForwards ==
    (Posted /\ (BodyUnparsed \/ LookupThrew)) => ForwardedOnce

\* C25: when the embedding, the vector query or the key-value read throws
\* (the missing binding included), the request is forwarded upstream exactly
\* once with its original body; a body that does not parse as JSON fails no
\* step: its raw text is the prompt and the lookup goes on, to a hit or to
\* the upstream.
C25_ThrowingStepForwards ==
    Posted =>
        /\ LookupThrew => ForwardedOnce
        /\ BodyUnparsed => (ForwardedOnce \/ ServedFromSemanticCache)

\* The index held a matching vector, the worker had no key-value binding, and
\* the request went upstream
C25_Witness ==
    /\ Posted
    /\ ~env.CLOUDEDGING_CACHE
    /\ "kvGet" \in resp.fx
    /\ resp.pre.near # {}
    /\ ForwardedOnce

\* A body that is not JSON was answered from the semantic cache
RawBodyHit == Posted /\ BodyUnparsed /\ ServedFromSemanticCache

----------------------------------------------------------------------------
(* The pattern filter: queries and paths as the URL parser hands them over *)

FilterConfigs ==
    {[Config0 EXCEPT !.mode = "API", !.rate_limit_enabled = TRUE,
                     !.rate_limit_threshold = RateThreshold,
                     !.purge_secret = "s3cret"]}

\* url.pathname keeps <, > and spaces percent-encoded and has no ".." segment
FilterPaths == {"/page", "/%3Cscript%3E", "/a../b", "/file..txt"}

FilterQueries ==
    {"", "?q=1", "?q=%3CSCRIPT%3E", "?id=1%20union%20select%202",
     "?id=1%20OR%201=1", "?f=..%2Fetc"}

FilterRequests ==
    {[Req0 EXCEPT !.path = p, !.search = q, !.cmd = k[1], !.token = k[2]] :
        p \in FilterPaths, q \in FilterQueries,
        k \in {<<"", "">>, <<"PURGE", "s3cret">>}}

FilterInit == Deployed(Env0, FilterConfigs)

FilterNext ==
    \/ \E r \in FilterRequests : Fetch(r, Ext0)
    \/ \E t \in BagToSet(tasks) : RunRlInc(t, Ext0)

SpecFilter == FilterInit /\ [][FilterNext]_vars

\* The text carries one of the filter's signatures
Carries(text) ==
    \/ \E sig \in {"<script>", "union select", "or 1=1"} :
          Includes(ToLower(text), sig)
    \/ Includes(text, "../")

\* The last request went past the preflight, geo, rate-limit and purge rules
ReachedFilter ==
    /\ resp.by \notin {"none", "ws"}
    /\ ~PreflightMatches /\ ~GeoMatches /\ ~LimitMatches /\ ~PurgeMatches

\* What the client wrote in the query and in the path
QueryText == decodeURIComponent(resp.req.search)
PathText == decodeURIComponent(resp.req.path)

\* C26: every request that reaches the pattern filter and whose decoded query
\* string or whose path contains a script tag, a UNION SELECT signature, an
\* OR 1=1 signature or a parent-directory traversal sequence is rejected with
\* 403, whether or not it has a query string.
C26_SignatureAlwaysRejected ==
    ReachedFilter /\ QueryText.ok /\ PathText.ok
        /\ (Carries(QueryText.str) \/ Carries(PathText.str))
    => ByGate(403)

\* A request for /<script> without a query string was handed to its handler
ScriptPathPassed ==
    /\ ReachedFilter /\ resp.req.search = "" /\ resp.req.path = "/%3Cscript%3E"
    /\ resp.by = "handleWebTraffic" /\ "origin" \in resp.fx

\* The same with the pathname taken literally, as the code tests it
LiteralSignatureRejected ==
    ReachedFilter /\ QueryText.ok
        /\ (Carries(QueryText.str) \/ Carries(resp.req.path))
    => ByGate(403)

\* A signature in the query, and a traversal sequence in the path of a request
\* without a query, are rejected
SignatureRejected ==
    /\ ByGate(403) /\ ~PurgeMatches
    /\ resp.req.search = "" /\ resp.req.path = "/a../b"

----------------------------------------------------------------------------
(* The rate limiter when its counter cannot be read or written *)

CounterConfigs ==
    {[Config0 EXCEPT !.mode = "STANDARD", !.rate_limit_enabled = TRUE,
                     !.rate_limit_threshold = RateThreshold,
                     !.purge_secret = "s3cret"]}

CounterRequests ==
    {PageRequest, PurgeRequest, [PurgeRequest EXCEPT !.token = "guess"],
     [PageRequest EXCEPT !.search = "?q=%3Cscript%3E"]}

CounterExts == {Ext0, [Ext0 EXCEPT !.fail = {"rlGet"}]}

CounterInit == Deployed(Env0, CounterConfigs)

CounterNext ==
    \/ \E r \in CounterRequests, o \in CounterExts : Fetch(r, o)
    \/ \E t \in BagToSet(tasks), o \in {Ext0, [Ext0 EXCEPT !.fail = {"kvPut"}]} :
          RunRlInc(t, o)
    \/ \E t \in BagToSet(tasks) : RunSave(t, Ext0)

SpecCounter == CounterInit /\ [][CounterNext]_vars

\* The counter read of the last request threw
ReadFailed == resp.by \notin {"none", "ws"} /\ resp.ext = {"rlGet"}

\* The answer a deployment without rate limiting gives: the purge rule, then
\* the pattern filter, then the handler; nothing is counted
AsIfDisabled ==
    /\ ~ByGate(429) /\ CountKind("rlinc") = 0
    /\ IF PurgeMatches
       THEN IF resp.req.token = "s3cret"
            THEN ByGate(200) /\ resp.del = {UrlOf(resp.req)}
            ELSE ByGate(403) /\ resp.del = {}
       ELSE IF PatternMatches THEN ByGate(403) /\ resp.del = {}
       ELSE /\ resp.by = "handleWebTraffic" /\ resp.del = {}
            /\ resp.res.tag = (IF resp.pre.entry = {} THEN "MISS" ELSE "HIT")
            /\ resp.res.status = 200 /\ resp.res.body = "v1"

\* A step that settles a deferred increment
SettlesIncrement ==
    \E t \in BagToSet(tasks) :
        t.kind = "rlinc" /\ tasks' = tasks (-) SetToBag({t})

\* The increment, failed or not, touches the counter only: either the write
\* happened or the counter is as it was
IncrementTouchesCounterOnly ==
    SettlesIncrement =>
        /\ resp' = resp /\ edge' = edge /\ kv' = kv /\ bucket' = bucket
        /\ cachedConfig' = cachedConfig
        /\ \/ rl' = rl
           \/ \E k \in DOMAIN rl' :
                 /\ rl'[k].n <= RateThreshold /\ rl'[k].exp = now + 60000
                 /\ \A j \in DOMAIN rl' \ {k} : j \in DOMAIN rl /\ rl'[j] = rl[j]

\* C27: rate limiting fails open. When the read of the counter throws, the
\* request is not answered 429, even with the counter at the threshold, and
\* the gate goes on to the purge and pattern-filter rules as a deployment
\* without rate limiting would; no increment is scheduled. A deferred
\* increment, whether its write fails or not, changes no response.
C27_CounterFailsOpen ==
    [](ReadFailed => AsIfDisabled) /\ [][IncrementTouchesCounterOnly]_vars

C27_Witness ==
    /\ ReadFailed /\ resp.pre.count >= RateThreshold
    /\ resp.by = "handleWebTraffic" /\ resp.res.status = 200
    /\ hist.inexact # {}

----------------------------------------------------------------------------
(* The deferred tasks, each with the external calls inside it failing *)

TaskConfigs ==
    {[Config0 EXCEPT !.mode = "STANDARD", !.cache_ttl = 2 * DEFAULT_CACHE_TTL],
     [Config0 EXCEPT !.mode = "API", !.rate_limit_enabled = TRUE,
                     !.rate_limit_threshold = RateThreshold],
     [Config0 EXCEPT !.mode = "ECOMMERCE"],
     [Config0 EXCEPT !.mode = "AI_INFERENCE", !.ai_gateway_id = "gw"]}

\* The request that schedules the tasks of each mode
TaskRequest(mode) ==
    CASE mode \in {"STANDARD", "API"} -> PageRequest
      [] mode = "ECOMMERCE" -> ImageRequest
      [] OTHER -> ChatRequest

TaskExts ==
    {JpegExt, OriginDown} \cup
    {Failing(f) : f \in {"cachePut", "bucketPut", "kvPut", "embed", "upsert"}}

TaskInit == Deployed(Env0, TaskConfigs)

TaskNext ==
    \/ Fetch(TaskRequest(TheOne(cfgStore).mode), JpegExt)
    \/ \E t \in BagToSet(tasks), o \in TaskExts : RunSave(t, o)
    \/ \E t \in BagToSet(tasks), o \in TaskExts : RunRefresh(t, o)
    \/ \E t \in BagToSet(tasks), o \in TaskExts : RunR2Save(t, o)
    \/ \E t \in BagToSet(tasks), o \in TaskExts : RunMirror(t, o)
    \/ \E t \in BagToSet(tasks), o \in TaskExts : RunRlInc(t, o)
    \/ \E t \in BagToSet(tasks), o \in TaskExts : RunSemStore(t, o)
    \/ \E t \in BagToSet(tasks) : RunAnalytics(t)
    \/ Tick(HalfHourMs)

SpecTasks == TaskInit /\ [][TaskNext]_vars

\* C28: every deferred task (edge-cache store after a MISS, SWR refresh,
\* edge-cache write after R2-HIT, bucket mirror write, rate-limit increment,
\* semantic-cache store, analytics log) catches its own failures: no task
\* ends with an uncaught failure, whichever call inside it fails.
C28_NoTaskRejects == hist.uncaught = {}

\* The edge-cache store after a MISS ended with the rejection of its put
MissStoreRejected ==
    /\ "save" \in hist.uncaught /\ resp.res.tag = "MISS"
    /\ UrlOf(resp.req) \notin DOMAIN edge

\* Only the store after a MISS does
OnlyMissStoreRejects == hist.uncaught \subseteq {"save"}

----------------------------------------------------------------------------
(* The router's upstream answers: plain, streaming and failed *)

StreamConfigs ==
    ChatConfigs \cup {[c EXCEPT !.semantic_cache_enabled = FALSE] : c \in ChatConfigs}

StreamRequests ==
    {ChatRequest, Chat("Summarize TLA+ in brief"),
     [ChatRequest EXCEPT !.method = "GET", !.ctype = "", !.clen = 0, !.body = Body0]}

\* The gateway answers with server-sent events
EventsExt ==
    [Ext0 EXCEPT !.upstream.ctype = "text/event-stream",
                 !.upstream.body = "data: r1", !.upstream.cc = "max-age=60"]

OverloadedExt == [Ext0 EXCEPT !.upstream.status = 500, !.upstream.body = "overloaded"]

StreamExts == {Ext0, EventsExt, OverloadedExt}

StreamInit == Deployed(Env0, StreamConfigs)

StreamNext ==
    \/ \E r \in StreamRequests, o \in StreamExts : Fetch(r, o)
    \/ \E t \in BagToSet(tasks) : RunSemStore(t, Ext0)
    \/ \E t \in BagToSet(tasks) : RunAnalytics(t)

SpecStream == StreamInit /\ [][StreamNext]_vars

\* The router called the upstream gateway for the last request
WentUpstream == resp.by = "handleAIGateway" /\ "upstream" \in resp.fx

\* The upstream answered the last request with server-sent events
Streamed == WentUpstream /\ resp.res.body = "data: r1"

UpstreamFailed == WentUpstream /\ resp.res.body = "overloaded"

\* No payload of a streaming or failed answer is in the semantic cache
OnlyPlainStored ==
    /\ \A id \in DOMAIN kv : kv[id].text \notin {"data: r1", "overloaded"}
    /\ \A t \in BagToSet(tasks) :
          t.kind = "semstore" => t.body \notin {"data: r1", "overloaded"}

\* C29: a semantic-cache store is scheduled only for a POST request with the
\* semantic cache enabled whose upstream response is successful and not
\* streaming. A streaming response is relayed with Cache-Control: no-cache and
\* an upstream error response is relayed as it is, and neither is ever
\* stored; a semantic hit schedules no store and calls no upstream.
C29_StoreOnlyPlainSuccess ==
    /\ CountKind("semstore") > 0 =>
          /\ WentUpstream /\ resp.req.method = "POST"
          /\ resp.cfg.semantic_cache_enabled
          /\ resp.res.status = 200 /\ resp.res.body = "r1"
          /\ resp.res.ctype = "application/json"
    /\ Streamed =>
          /\ resp.res.ctype = "text/event-stream" /\ resp.res.cc = "no-cache"
          /\ resp.res.status = 200 /\ resp.sched = <<>>
    /\ UpstreamFailed =>
          /\ resp.res.status = 500 /\ CountKind("semstore") = 0
    /\ (resp.by # "none" /\ SemanticHit) =>
          /\ resp.sched = <<>> /\ "upstream" \notin resp.fx /\ resp.fwd = <<>>
    /\ OnlyPlainStored

C29_Witness ==
    /\ Streamed /\ resp.req.method = "POST" /\ resp.cfg.semantic_cache_enabled
    /\ resp.res.cc = "no-cache" /\ kv # <<>>

\* States the formula's other cases need
PlainStoreScheduled == CountKind("semstore") = 1 /\ resp.res.body = "r1"

HitAfterStore == resp.by = "handleAIGateway" /\ SemanticHit /\ resp.fwd = <<>>

----------------------------------------------------------------------------
(* Orphaned vectors and the entries stored after them *)

\* The vectors whose payload has expired
Orphans == {id \in DOMAIN vecs : kvGet(id) = {}}

\* The vectors stored for this very embedding whose payload is alive
LiveFor(embedding) ==
    {id \in DOMAIN vecs : kvGet(id) # {} /\ vecs[id].values = embedding}

\* An orphan of the same or a near-duplicate prompt is in the index, and so
\* is a live entry stored for the prompt afterwards
Superseded(embedding) ==
    /\ \E id \in Orphans : Cosine(embedding, vecs[id].values) >= 95
    /\ LiveFor(embedding) # {}

\* A step in which a request runs the lookup as far as the index query
LookupStep ==
    /\ now' = now /\ kv' = kv /\ vecs' = vecs
    /\ BagCardinality(tasks') >= BagCardinality(tasks)
    /\ resp'.by = "handleAIGateway" /\ "vquery" \in resp'.fx

HitFromLive(embedding) ==
    /\ resp'.res.aic = "SEMANTIC-HIT"
    /\ \E id \in LiveFor(embedding) : resp'.res.body = TheOne(kvGet(id))

\* C30: an orphaned vector is superseded, not deleted: once a request with
\* the same or a near-duplicate prompt has missed on the orphan and its
\* deferred store has completed under a new identifier, every lookup with
\* that prompt made while the new payload is alive is a semantic hit served
\* from the new entry, and the orphan is still in the index.
C30_OrphanSuperseded ==
    /\ [][LookupStep /\ Superseded(generateEmbedding(PromptOf(resp'.req.body)))
            => HitFromLive(generateEmbedding(PromptOf(resp'.req.body)))]_vars
    /\ [][DOMAIN vecs \subseteq DOMAIN vecs']_vars

\* The lookup was handed the orphan although a live entry of the same prompt
\* was in the index, and the request went upstream
OrphanShadowsNewEntry ==
    /\ Looked /\ ~SemanticHit /\ "upstream" \in resp.fx /\ resp.pre.at = now
    /\ \E n \in resp.pre.near : n.score = 100 /\ n.payload = {}
    /\ LiveFor(generateEmbedding(PromptOf(resp.req.body))) # {}

\* With no orphan of the very same prompt the new entry is the single
\* nearest neighbour and the lookup hits
NearDuplicateSuperseded ==
    [][(/\ LookupStep
        /\ Superseded(generateEmbedding(PromptOf(resp'.req.body)))
        /\ \A id \in Orphans :
              vecs[id].values # generateEmbedding(PromptOf(resp'.req.body)))
          => HitFromLive(generateEmbedding(PromptOf(resp'.req.body)))]_vars

\* The near-duplicate case happens: a hit while an orphan scoring 0.95 is in
\* the index
HitBesideOrphan ==
    /\ Looked /\ SemanticHit /\ resp.pre.at = now
    /\ \E id \in Orphans :
          Cosine(generateEmbedding(PromptOf(resp.req.body)), vecs[id].values) = 95

----------------------------------------------------------------------------
(* Protocol upgrades against a deployment whose every gate rule is armed *)

RelayRequests ==
    {[Req0 EXCEPT !.path = "/page", !.upgrade = u, !.country = c, !.cmd = k[1],
                  !.token = k[2], !.search = q] :
        u \in {"", "websocket", "WebSocket "}, c \in {"US", "KP"},
        k \in {<<"", "">>, <<"PURGE", "s3cret">>},
        q \in {"", "?q=%3Cscript%3E"}}

RelayExts == {Ext0, [Ext0 EXCEPT !.originThrows = TRUE]}

RelayInit == Deployed(Env0, OrderConfigs)

RelayNext ==
    \/ \E r \in RelayRequests, o \in RelayExts : Fetch(r, o)
    \/ \E t \in BagToSet(tasks) : RunRlInc(t, Ext0)
    \/ \E t \in BagToSet(tasks) : RunSave(t, Ext0)

SpecRelay == RelayInit /\ [][RelayNext]_vars

\* The last request asked for a protocol upgrade
UpgradeAsked == resp.req.upgrade \in {"websocket", "WebSocket "}

\* The relay's answer: the origin's response as it came, or 502, and nothing
\* else done
RelayedOnly ==
    /\ resp.by = "ws" /\ resp.fx = {"origin"}
    /\ resp.sched = <<>> /\ resp.del = {} /\ resp.fwd = <<>>
    /\ ~resp.res.fort /\ resp.res.ver = "" /\ resp.res.cid = "" /\ resp.res.tag = ""
    /\ IF "origin" \in resp.ext
       THEN resp.res.status = 502 /\ resp.res.body = "WS Failed"
       ELSE /\ resp.res.status = 200 /\ resp.res.body = "v1"
            /\ resp.res.hdrs = {"server", "x-powered-by", "via", "etag"}

\* The step that answers an upgrade request leaves the pipeline's state alone
RelayChangesNothing ==
    (resp' # resp /\ resp'.req.upgrade \in {"websocket", "WebSocket "}) =>
        UNCHANGED <<cachedConfig, lastConfigFetch, edge, rl, bucket, kv, vecs,
                    tasks, now>>

\* C31: a request whose Upgrade header is websocket is handed to the relay
\* before anything else: no config is loaded, no rule of the security gate
\* runs (geo-block, counter read or increment, purge, pattern filter), no
\* edge cache, bucket or semantic cache is touched, the response is not
\* fortified, and the config cache, the counters and the caches stay as they
\* were.
C31_UpgradeBypassesPipeline ==
    [](UpgradeAsked => RelayedOnly) /\ [][RelayChangesNothing]_vars

\* An upgrade request that the geo-block and the purge rule match, for a
\* page the edge cache holds and with the counter at the threshold
C31_Witness ==
    /\ UpgradeAsked /\ resp.by = "ws" /\ resp.req.upgrade = "WebSocket "
    /\ resp.req.country = "KP" /\ resp.req.cmd = "PURGE"
    /\ resp.pre.entry # {} /\ UrlOf(resp.req) \in DOMAIN edge
    /\ resp.pre.count >= RateThreshold

\* An upgrade request to a worker that has loaded no config yet, and one the
\* pattern filter matches
ColdRelay == UpgradeAsked /\ resp.by = "ws" /\ cachedConfig = {}

PatternRelayed == UpgradeAsked /\ resp.by = "ws" /\ resp.req.search # ""

----------------------------------------------------------------------------
\* The order of the two writes of the semantic cache store

\* Payloads no vector refers to
Unreferenced == DOMAIN kv \ DOMAIN vecs

\* A step that writes a payload and no vector leaves that payload
\* unreferenced; no step writes a vector without its payload
WritesInOrder ==
    /\ \A id \in DOMAIN vecs' \ DOMAIN vecs : id \in DOMAIN kv'
    /\ vecs' = vecs => \A id \in DOMAIN kv' \ DOMAIN kv : id \notin DOMAIN vecs'

\* C32: the semantic cache store writes the payload to the key-value store
\* before it upserts the vector under the same identifier, so every vector
\* in the index has an identifier whose payload was written before it, also
\* when a store fails between the two writes; a failed upsert leaves only a
\* payload that no vector refers to.
C32_PayloadBeforeVector ==
    [](DOMAIN vecs \subseteq DOMAIN kv) /\ [][WritesInOrder]_vars

\* A store whose upsert failed left its payload behind, and a later store
\* completed beside it
C32_Witness ==
    /\ Unreferenced # {} /\ DOMAIN vecs # {}
    /\ \A id \in DOMAIN vecs : id \in DOMAIN kv

----------------------------------------------------------------------------
\* The counter against the requests the limiter let through

\* When the counter of the key last expired: the expiry of the stored value
\* if that has passed, else the expiry its last write found behind it
LastExpiry(key) ==
    IF key \in DOMAIN rl /\ now >= rl[key].exp THEN rl[key].exp
    ELSE At(hist.epoch, key, 0)

\* The requests of the key admitted at or after a time (the history keeps
\* the last RateThreshold of them, and no counter is written above that)
AdmittedSince(key, time) ==
    Cardinality({i \in DOMAIN At(hist.admits, key, <<>>) : hist.admits[key][i] >= time})

\* A rejected request schedules no write
RejectedWritesNothing ==
    (resp.by = "gate" /\ resp.res.status = 429) =>
        resp.sched = <<>> /\ resp.fx = {"rlGet"}

\* The step that rejects a request leaves the counter and its expiry alone
RejectionKeepsCounter ==
    (resp' # resp /\ resp'.by = "gate" /\ resp'.res.status = 429) =>
        rl' = rl /\ tasks' = tasks

\* C33 as stated: under every interleaving of requests of one (client, IP)
\* and their deferred increments the stored counter never exceeds the number
\* of requests admitted since the counter last expired, and a request
\* rejected with 429 never writes the counter or extends its expiry.
C33_NeverOverCounted ==
    /\ \A key \in DOMAIN rl : rlRead(key) <= AdmittedSince(key, LastExpiry(key))
    /\ RejectedWritesNothing

\* C33, amended: the stored counter never exceeds the number of requests
\* admitted so far for the key, nor the threshold; a request rejected with
\* 429 schedules no increment and its step leaves the counter and its expiry
\* as they were.
C33_AtMostAdmitted ==
    /\ [](/\ \A key \in DOMAIN rl :
                /\ rl[key].n <= Len(At(hist.admits, key, <<>>))
                /\ rl[key].n <= RateThreshold
          /\ RejectedWritesNothing)
    /\ [][RejectionKeepsCounter]_vars

\* Two requests admitted, both increments written, and a third rejected
C33_Witness ==
    /\ resp.by = "gate" /\ resp.res.status = 429
    /\ \E key \in DOMAIN rl : rl[key].n = RateThreshold /\ now < rl[key].exp
    /\ tasks = EmptyBag

\* An increment read before the expiry and written after it: a live counter
\* with no request admitted since the expiry
StaleIncrementLanded ==
    \E key \in DOMAIN rl :
        /\ now < rl[key].exp /\ rl[key].n = RateThreshold
        /\ At(hist.epoch, key, 0) > 0
        /\ AdmittedSince(key, LastExpiry(key)) = 0

----------------------------------------------------------------------------
\* Purge against the deferred writes of the edge cache

\* The last request was a purge answered 200
PurgeSucceeded ==
    resp.by = "gate" /\ resp.req.cmd = "PURGE" /\ resp.res.status = 200

\* The step answers the next request, a cacheable one for the purged URL
NextCacheableAfterPurge ==
    /\ PurgeSucceeded /\ resp' # resp
    /\ UrlOf(resp'.req) = UrlOf(resp.req)
    /\ resp'.req.cmd = "" /\ resp'.req.method = "GET" /\ resp'.req.cookie = ""
    /\ resp'.by = "handleWebTraffic"

FetchedAfresh == resp'.res.tag = "MISS" /\ "origin" \in resp'.fx

\* C34 as stated: after a purge with a valid token has returned 200 for a
\* URL, the next cacheable request for that URL is tagged MISS and fetches
\* the origin, in every interleaving with the cache-store and SWR-refresh
\* tasks scheduled for the URL before the purge.
C34_PurgeThenMiss == [][NextCacheableAfterPurge => FetchedAfresh]_vars

\* C34, amended: after such a purge the next cacheable request for the URL
\* fetches the origin and is tagged MISS (BYPASS when the origin forbids
\* storing and the mode is not aggressive) unless a deferred cache-store or
\* refresh task for the URL has written the entry since the purge; when one
\* has, the request is answered from that entry.
C34_PurgeThenMissUnlessRewritten ==
    [][NextCacheableAfterPurge =>
          IF UrlOf(resp.req) \in hist.rewrote
          THEN resp'.res.tag \in {"HIT", "SWR"} /\ "origin" \notin resp'.fx
          ELSE /\ "origin" \in resp'.fx
               /\ resp'.res.tag = IF resp'.res.cc = "no-store" /\ resp'.cfg.mode = "SAAS"
                                  THEN "BYPASS" ELSE "MISS"]_vars

\* A page was requested after its purge and fetched from the origin while
\* the refresh that a stale answer before the purge had scheduled is still
\* pending (only a purge removes an entry, and only an entry schedules a
\* refresh)
C34_Witness ==
    /\ resp.by = "handleWebTraffic" /\ resp.res.tag = "MISS" /\ resp.req.cookie = ""
    /\ resp.pre.entry = {} /\ "origin" \in resp.fx
    /\ \E t \in BagToSet(tasks) : t.kind = "refresh" /\ t.key = UrlOf(resp.req)

\* A store scheduled before the purge ran after it and the page was a HIT
HitAfterPurge ==
    /\ resp.by = "handleWebTraffic" /\ resp.res.tag = "HIT"
    /\ resp.pre.rewrote /\ resp.pre.hit = {}

----------------------------------------------------------------------------
(* Requests that share their user-authored text: the same question sent with
   other credentials, to another provider, with another model, or with other
   turns around it *)

StrictThreshold == 97

SharedConfigs ==
    {[Config0 EXCEPT !.mode = "AI_INFERENCE", !.ai_gateway_id = "gw",
                     !.semantic_cache_threshold = th,
                     !.ai_cache_ttl = MinuteMs \div 1000] :
        th \in {DEFAULT_SEM_THRESHOLD, StrictThreshold}}

\* An OpenAI chat request and the same question as an Anthropic one: other
\* key, other provider path, other model, other system message
SharedFirst == [ChatRequest EXCEPT !.auth = "Bearer key-A", !.body.model = "gpt-4o"]

SharedOther ==
    [ChatRequest EXCEPT !.auth = "Bearer key-B", !.path = "/v1/messages",
                        !.body.model = "claude-3",
                        !.body.msgs = << [role |-> "system", content |-> "Answer at length."],
                                         [role |-> "user", content |-> "Summarize TLA+ for me"] >>]

\* A Gemini conversation: a user turn and the model's earlier turn
Gemini(key, turn) ==
    [Req0 EXCEPT !.method = "POST", !.path = "/v1beta/models/gemini-pro:generateContent",
                 !.ctype = "application/json", !.clen = 100, !.auth = key,
                 !.body = [fmt |-> "contents",
                           msgs |-> << [role |-> "user", content |-> "Summarize TLA+ for me"],
                                       [role |-> "model", content |-> turn] >>,
                           text |-> "", model |-> ""]]

SharedRequests ==
    {SharedFirst, SharedOther,
     Gemini("Bearer key-A", "Which part?"), Gemini("Bearer key-B", "Gladly.")}

SharedInit == Deployed(Env0, SharedConfigs)

SharedNext ==
    \/ \E r \in SharedRequests : Fetch(r, Ext0)
    \/ \E t \in BagToSet(tasks) : RunSemStore(t, Ext0)
    \/ \E t \in BagToSet(tasks) : RunAnalytics(t)

SpecShared == SharedInit /\ [][SharedNext]_vars

\* What the user wrote: the user turns of a conversation, or the prompt / input
UserText(body) ==
    IF body.fmt \in {"messages", "contents"} THEN JoinNL(UserContents(body.msgs))
    ELSE body.text

\* The two requests differ at most in credentials, provider, requested model
\* and the turns that are not the user's
DifferOutsideUserText(r1, r2) ==
    /\ r1.method = "POST" /\ r2.method = "POST"
    /\ r1.body.fmt = r2.body.fmt
    /\ UserText(r1.body) = UserText(r2.body)
    /\ [r1 EXCEPT !.auth = "", !.path = "", !.xprov = "", !.body = Body0]
         = [r2 EXCEPT !.auth = "", !.path = "", !.xprov = "", !.body = Body0]

\* What the gateway may do with the request in this state, one outcome for each
\* neighbour the index may return: hit or miss, the body served on a hit, and
\* whether the upstream gateway was called
Outcomes(r, cfg) ==
    { LET out == handleAIGateway(r, cfg, Ext0, best)
          hit == out.res.aic = "SEMANTIC-HIT"
      IN [hit |-> hit, body |-> IF hit THEN out.res.body ELSE "",
          upstream |-> out.fwd # <<>>] : best \in QueryResults(r) }

SameOutcome(r1, r2) ==
    \A cfg \in SharedConfigs :
        /\ Outcomes(r1, cfg) = Outcomes(r2, cfg)
        /\ \A oc \in Outcomes(r1, cfg) : oc.hit => ~oc.upstream

\* C35: two POST requests that differ only in credentials, provider,
\* requested model or non-user message fields get the same hit-or-miss outcome
\* and, on a hit, the same cached body with no upstream call.
C35_SameUserTextSameOutcome ==
    \A r1 \in SharedRequests, r2 \in SharedRequests :
        DifferOutsideUserText(r1, r2) => SameOutcome(r1, r2)

\* The same for bodies in the messages, prompt or input shape, whose user text
\* alone is embedded; a contents conversation is embedded with every turn, so
\* the model's turns take part in its outcome.
SameOutcomeForUserTextShapes ==
    \A r1 \in SharedRequests, r2 \in SharedRequests :
        DifferOutsideUserText(r1, r2)
        /\ r1.body.fmt \in {"messages", "prompt", "input"} => SameOutcome(r1, r2)

\* The question stored for one key is served to the other key, provider, model
\* and system message without an upstream call
AnswerSharedAcrossKeys ==
    /\ resp.req = SharedOther /\ SemanticHit /\ resp.fwd = <<>>
    /\ \E cfg \in SharedConfigs :
          \E oc \in Outcomes(SharedFirst, cfg) : oc.hit /\ oc.body = resp.res.body
    /\ \A id \in DOMAIN vecs : vecs[id].values = generateEmbedding(UserText(SharedFirst.body))

\* Two Gemini conversations with the same user turn: one is a hit, the other
\* is not
ModelTurnDecides ==
    \E r1 \in SharedRequests, r2 \in SharedRequests, cfg \in SharedConfigs :
        /\ DifferOutsideUserText(r1, r2) /\ r1.body.fmt = "contents"
        /\ \E oc \in Outcomes(r1, cfg) : oc.hit
        /\ \A oc \in Outcomes(r2, cfg) : ~oc.hit

----------------------------------------------------------------------------
(* The storage mirror and the request's credentials: an origin that answers a
   signed-in request with that member's own file *)

MirrorRequests ==
    {[Req0 EXCEPT !.path = "/img/a.jpg"],
     [Req0 EXCEPT !.path = "/img/a.jpg", !.method = "HEAD"],
     [Req0 EXCEPT !.path = "/img/a.jpg", !.cookie = "session=abc"],
     [Req0 EXCEPT !.path = "/img/a.jpg", !.method = "POST", !.auth = "Bearer abc"]}

SignedIn(r) == r.cookie # "" \/ r.auth # ""

MemberJpeg == [Jpeg EXCEPT !.body = "member abc"]

\* What the origin may answer to the request
OriginsFor(r) ==
    IF SignedIn(r)
    THEN {[Ext0 EXCEPT !.origin = MemberJpeg],
          [Ext0 EXCEPT !.origin = [MemberJpeg EXCEPT !.cc = "private, max-age=60"]],
          [Ext0 EXCEPT !.origin = [Jpeg EXCEPT !.body = "sign in again", !.status = 403]]}
    ELSE {[Ext0 EXCEPT !.origin = Jpeg],
          [Ext0 EXCEPT !.origin = [Jpeg EXCEPT !.body = "gone", !.status = 404]]}

MirrorOrigins == UNION {OriginsFor(r) : r \in MirrorRequests}

MirrorInit == Deployed(Env0, R2Configs)

MirrorNext ==
    \/ \E r \in MirrorRequests : \E o \in OriginsFor(r) : Fetch(r, o)
    \/ \E t \in BagToSet(tasks) : RunMirror(t, Ext0)
    \/ \E t \in BagToSet(tasks) : RunR2Save(t, Ext0)

SpecMirror == MirrorInit /\ [][MirrorNext]_vars

\* The same path asked for with a plain GET and no credentials
Anonymous(r) == [Req0 EXCEPT !.path = r.path]

\* In this state the handler does with the request what it does with the
\* anonymous GET of the path, whatever the origin answers
HandledAsAnonymous ==
    \A r \in MirrorRequests, cfg \in R2Configs, o \in MirrorOrigins :
        isStaticPath(r.path) /\ env.STORAGE_BUCKET
        => handleR2Storage(r, cfg, o) = handleR2Storage(Anonymous(r), cfg, o)

\* A request is served the bucket's object if there is one; if not, the origin
\* is asked and a 200 is scheduled for mirroring, whoever asks
ServedByRuleAlone ==
    resp' # resp =>
        LET r == resp'.req
            key == r2KeyOf(r.path)
        IN IF key \in DOMAIN bucket
           THEN /\ resp'.res.stor = "R2-HIT" /\ resp'.res.body = bucket[key].body
                /\ "origin" \notin resp'.fx
                /\ resp'.sched = <<r2EdgeTask(UrlOf(r), resp'.res)>>
           ELSE /\ resp'.res.tag = "R2-MISS" /\ "origin" \in resp'.fx
                /\ \E o \in OriginsFor(r) :
                      /\ resp'.res.body = o.origin.body
                      /\ resp'.res.status = o.origin.status
                      /\ resp'.sched = IF o.origin.status = 200
                                       THEN <<mirrorTask(key, o.origin)>> ELSE <<>>

\* C36: in the storage mirror handler the outcome for a static-asset path
\* (bucket hit served, origin fetch, mirror write) does not depend on the
\* request's Cookie, Authorization or method; what the origin answered to an
\* authenticated request is mirrored by the same rule and then served from the
\* bucket to unauthenticated requests.
C36_MirrorIgnoresCredentials ==
    /\ []HandledAsAnonymous
    /\ [][ServedByRuleAlone]_vars
    /\ [][\A t \in BagToSet(tasks) :
             t.kind = "mirror" /\ tasks' = tasks (-) SetToBag({t}) /\ shouldMirror(t)
             => bucket' = Put(bucket, t.key, [body |-> t.body, ctype |-> t.ctype])]_vars

\* The member's file, fetched for a signed-in request, is served from the
\* bucket to a request without credentials
C36_Witness ==
    /\ ~SignedIn(resp.req) /\ resp.req.method = "GET"
    /\ resp.res.stor = "R2-HIT" /\ resp.res.body = MemberJpeg.body
    /\ "origin" \notin resp.fx

\* The origin's private answer to a signed-in request is not mirrored
PrivateAnswerKept ==
    /\ SignedIn(resp.req) /\ Includes(resp.res.cc, "private")
    /\ tasks = EmptyBag /\ bucket = << >>

----------------------------------------------------------------------------
(* A stale entry whose refresh finds the origin changed, gone or unreachable *)

StaleConfigs ==
    {[Config0 EXCEPT !.mode = "STANDARD", !.cache_ttl = 2 * DEFAULT_CACHE_TTL]}

StaleRequests ==
    {[Req0 EXCEPT !.path = "/page"],
     [Req0 EXCEPT !.path = "/page", !.cookie = "session=abc"]}

StaleOrigins ==
    {Ext0,
     [Ext0 EXCEPT !.origin.body = "v2"],
     [Ext0 EXCEPT !.origin.status = 404, !.origin.body = "gone"],
     [Ext0 EXCEPT !.origin.status = 304, !.origin.body = ""],
     [Ext0 EXCEPT !.originThrows = TRUE]}

StaleInit == Deployed(Env0, StaleConfigs)

StaleNext ==
    \/ \E r \in StaleRequests, o \in StaleOrigins : Fetch(r, o)
    \/ \E t \in BagToSet(tasks) : RunSave(t, Ext0)
    \/ \E t \in BagToSet(tasks), o \in StaleOrigins : RunRefresh(t, o)
    \/ Tick(HalfHourMs)

SpecStale == StaleInit /\ [][StaleNext]_vars

\* The step settles a refresh task
RefreshSettles(t) ==
    t \in BagToSet(tasks) /\ t.kind = "refresh" /\ tasks' = tasks (-) SetToBag({t})

\* A refresh either leaves the edge cache as it was or stores, under its url
\* and stamped with the time of the write, a status-200 answer of the origin
RefreshStores200Only ==
    \A t \in BagToSet(tasks) :
        RefreshSettles(t) =>
            \/ edge' = edge
            \/ \E o \in StaleOrigins :
                  /\ ~o.originThrows /\ o.origin.status = 200
                  /\ edge' = saveToCache(edge, t.key,
                                         addShieldHeader(o.origin, "REFRESH"), t.ttl)

\* The entry of the url the last response was for
EntryNow == IF UrlOf(resp.req) \in DOMAIN edge THEN Some(edge[UrlOf(resp.req)]) ELSE {}

\* A cacheable request that finds a stale entry is served it, tagged SWR, with
\* no origin fetch and one new refresh for its url
StaleServedAgain ==
    (ByWebHandler /\ Cacheable /\ resp.pre.entry # {}
       /\ ~InsideWindow(TheOne(resp.pre.entry), resp.pre.at)) =>
        /\ resp.res.tag = "SWR"
        /\ resp.res.body = TheOne(resp.pre.entry).body
        /\ "origin" \notin resp.fx
        /\ resp.sched = refreshTasks(UrlOf(resp.req), cacheTtl(resp.cfg))

\* C37: a background refresh replaces the edge-cache entry only when its origin
\* fetch returns status 200; when the fetch fails or returns another status the
\* entry is left unchanged, and later cacheable requests for the url keep being
\* served the stale entry tagged SWR, each scheduling a new refresh.
C37_RefreshOnlyOn200 ==
    /\ [][RefreshStores200Only]_vars
    /\ []StaleServedAgain

\* The refresh of the last SWR answer has run and the stale entry is as the
\* request found it
C37_Witness ==
    /\ resp.res.tag = "SWR" /\ tasks = EmptyBag
    /\ EntryNow = resp.pre.entry
    /\ now - TheOne(EntryNow).age >= 3600000

\* Two requests in a row were served the stale entry, each with its refresh
TwoRefreshesPending ==
    /\ resp.res.tag = "SWR"
    /\ tasks = SetToBag({refreshTasks(UrlOf(resp.req), cacheTtl(resp.cfg))[1]})
                  (+) SetToBag({refreshTasks(UrlOf(resp.req), cacheTtl(resp.cfg))[1]})

\* A refresh that got a 200 replaced the stale entry
RefreshedEntry ==
    /\ resp.res.tag = "SWR" /\ tasks = EmptyBag
    /\ EntryNow # resp.pre.entry /\ TheOne(EntryNow).body = "v2"

----------------------------------------------------------------------------
(* Stale-while-revalidate: the request after a refresh that got a 200 *)

\* The last response answers the first cacheable request for its url after a
\* refresh got a 200, within the hour, with no purge in between
AfterRefresh ==
    /\ ByWebHandler /\ Cacheable /\ resp.pre.refreshed # {}
    /\ resp.pre.at - TheOne(resp.pre.refreshed).at < 3600000

\* C38: if a request is answered SWR and its refresh completes with an origin
\* response of status 200 then, absent purge, the entry's timestamp is renewed
\* and the next cacheable request for the url within one hour is tagged HIT and
\* carries the refreshed body, with no origin fetch.
C38_SwrConverges ==
    AfterRefresh =>
        /\ resp.pre.entry # {}
        /\ TheOne(resp.pre.entry).age >= TheOne(resp.pre.refreshed).at
        /\ resp.res.tag = "HIT"
        /\ resp.res.body = TheOne(resp.pre.refreshed).body
        /\ "origin" \notin resp.fx

\* C38, amended: the same, provided the refresh's write of the entry succeeded
\* and no other deferred store or refresh for the url wrote the entry after it:
\* then the entry is stamped with the time of the refresh and the request is a
\* HIT with the refreshed body.
C38_SwrConvergesUnlessOverwritten ==
    (AfterRefresh /\ TheOne(resp.pre.refreshed).kept) =>
        /\ resp.pre.entry # {}
        /\ TheOne(resp.pre.entry).age = TheOne(resp.pre.refreshed).at
        /\ TheOne(resp.pre.entry).body = TheOne(resp.pre.refreshed).body
        /\ resp.res.tag = "HIT"
        /\ resp.res.body = TheOne(resp.pre.refreshed).body
        /\ "origin" \notin resp.fx
        /\ resp.sched = <<>>

\* A stale entry of the first body, refreshed with the second, and the request
\* after the refresh served the second as a HIT
C38_Witness ==
    /\ AfterRefresh /\ TheOne(resp.pre.refreshed).kept
    /\ TheOne(resp.pre.refreshed).at >= 3600000
    /\ resp.res.tag = "HIT" /\ resp.res.body = "v2"

\* The store of an earlier MISS ran after the refresh: the request after the
\* refresh is a HIT with the body of that MISS
OlderStoreWon ==
    /\ AfterRefresh /\ ~TheOne(resp.pre.refreshed).kept
    /\ resp.res.tag = "HIT"
    /\ resp.res.body # TheOne(resp.pre.refreshed).body

----------------------------------------------------------------------------
(* Requests the security gate ends, in modes whose handlers would fetch, read
   the bucket or call the gateway *)

BarrierConfigs ==
    {[Config0 EXCEPT !.mode = m, !.blocked_countries = {"KP"},
                     !.rate_limit_enabled = (m # "AI_INFERENCE"),
                     !.rate_limit_threshold = RateThreshold,
                     !.purge_secret = "s3cret", !.ai_gateway_id = "gw"] :
        m \in {"STANDARD", "ECOMMERCE", "AI_INFERENCE"}}

BarrierTargets ==
    {[Req0 EXCEPT !.path = "/page"], [Req0 EXCEPT !.path = "/img/a.jpg"], ChatRequest}

BarrierRequests ==
    BarrierTargets
    \cup {[r EXCEPT !.method = "OPTIONS"] : r \in {ChatRequest}}
    \cup {[r EXCEPT !.country = "KP"] : r \in {[Req0 EXCEPT !.path = "/img/a.jpg"]}}
    \cup {[r EXCEPT !.cmd = "PURGE", !.token = k] :
              r \in {[Req0 EXCEPT !.path = "/page"]}, k \in {"s3cret", "guess"}}
    \cup {[r EXCEPT !.search = "?q=%3Cscript%3E"] :
              r \in {[Req0 EXCEPT !.path = "/page"], ChatRequest}}

BarrierOutcomes == {Ext0, [Ext0 EXCEPT !.fail = {"cacheDelete"}]}

BarrierInit == Deployed(Env0, BarrierConfigs)

BarrierNext ==
    \/ \E r \in BarrierRequests, o \in BarrierOutcomes : Fetch(r, o)
    \/ \E t \in BagToSet(tasks) : RunRlInc(t, Ext0)
    \/ \E t \in BagToSet(tasks) : RunSave(t, Ext0)
    \/ \E t \in BagToSet(tasks) : RunMirror(t, Ext0)
    \/ \E t \in BagToSet(tasks) : RunSemStore(t, Ext0)
    \/ \E t \in BagToSet(tasks) : RunAnalytics(t)

SpecBarrier == BarrierInit /\ [][BarrierNext]_vars

\* What the gate answers with
GateStatuses == {204, 451, 429, 200, 403, 500}

\* The response as the gate built it: none of the headers fortifyResponse sets
Unfortified(res) ==
    /\ ~res.fort /\ res.ver = "" /\ res.cid = ""
    /\ res.hdrs \cap (securityHeaders \cup {"content-security-policy"}) = {}
    /\ res.tag = "" /\ res.stor = "" /\ res.aic = ""

\* A request the gate ends does what the gate does and nothing else: it reads
\* the counter and may schedule its increment, and a granted purge deletes the
\* request's url from the edge cache
EndedInGate ==
    (resp' # resp /\ resp'.by = "gate") =>
        /\ resp'.res.status \in GateStatuses
        /\ resp'.fx \subseteq {"rlGet", "delete"}
        /\ resp'.fwd = <<>>
        /\ \A i \in 1..Len(resp'.sched) : resp'.sched[i].kind = "rlinc"
        /\ tasks' = tasks (+) SeqToBag(resp'.sched)
        /\ resp'.del \subseteq {UrlOf(resp'.req)}
        /\ resp'.del # {} => resp'.res.status = 200 /\ resp'.res.body = "Cache Purged"
        /\ "delete" \in resp'.fx => resp'.res.body \in {"Cache Purged", "Purge Failed"}
        /\ edge' = Drop(edge, resp'.del)
        /\ bucket' = bucket /\ kv' = kv /\ vecs' = vecs /\ rl' = rl
        /\ Unfortified(resp'.res)

\* The gate ends what its rules match, in every mode
GateRuleEnds ==
    LET r == resp.req
    IN (resp.by # "none" /\ resp.cfg \in BarrierConfigs
        /\ (r.method = "OPTIONS" \/ r.country = "KP" \/ r.cmd = "PURGE"
            \/ r.search # ""
            \/ (resp.cfg.rate_limit_enabled /\ resp.pre.count >= RateThreshold)))
       => resp.by = "gate"

\* C39: a request terminated by the security gate (204, 451, 429, purge
\* 200/403/500, pattern-filter 403) never reaches a mode handler: no origin
\* fetch, no bucket access, no semantic-cache or upstream call, no edge-cache
\* read or write other than the purge's delete, and a response without the
\* fortification headers.
C39_GateEndsRequest ==
    /\ [][EndedInGate]_vars
    /\ []GateRuleEnds

\* The chat request with a script-tag query is refused by the gate of the
\* gateway mode while the semantic cache holds an answer for its prompt
C39_Witness ==
    /\ resp.by = "gate" /\ resp.res.status = 403 /\ resp.req.search # ""
    /\ resp.cfg.mode = "AI_INFERENCE" /\ resp.req.method = "POST"
    /\ DOMAIN vecs # {} /\ resp.fx = {}

\* Each of the gate's answers is given
GateAnswered(status, body) ==
    resp.by = "gate" /\ resp.res.status = status /\ resp.res.body = body

Preflighted == GateAnswered(204, "") /\ resp.cfg.mode = "AI_INFERENCE"
GeoBlocked == GateAnswered(451, "Forbidden") /\ resp.cfg.mode = "ECOMMERCE"
OverLimit == GateAnswered(429, "Rate limit exceeded")
PurgeGranted == GateAnswered(200, "Cache Purged") /\ resp.del # {} /\ resp.pre.entry # {}
PurgeRefused == GateAnswered(403, "Forbidden") /\ resp.req.cmd = "PURGE"
PurgeBroke == GateAnswered(500, "Purge Failed")

==============================================================================
